---- MODULE Spec2Model ----
(***************************************************************************)
(* citylist: a REST API over a static dataset of world cities.             *)
(*                                                                         *)
(* Two servers live in the repository and both are modelled:               *)
(*   - the Express router (routes/api/v1/cities.js), which keeps the       *)
(*     corpus in the module variable citiesData and serves listing,        *)
(*     search, nearest-city lookup, lookup by id and the country filter;   *)
(*   - the Go server (package server / package database), which keeps the  *)
(*     corpus in the SQLite table `cities` and serves listing, search and  *)
(*     the country filter, /healthz and the admin routes behind            *)
(*     requireAdmin, all behind the httprate limiter.                      *)
(*                                                                         *)
(* Specifications.  Spec: one client and both servers on one dataset.      *)
(* SpecLoad: the Go process stopped and started again on its database      *)
(* file.  SpecAdmin: admin routes and settings.  SpecStartup: the load,    *)
(* step by step, before the listener.  SpecConcurrent: Go queries in       *)
(* flight together.  SpecBoot: credentials and port over several starts.   *)
(* SpecRate: the limiter.  SpecNet: the address printed at start.          *)
(* SpecPages: listing a corpus longer than the largest page.               *)
(*                                                                         *)
(* Numbers.  Coordinates are integers in units of 1e-5 degree; distances   *)
(* are integers in units of 1e-4 km (0.1 m).  A JavaScript number is a     *)
(* record [k, v] with k one of "fin", "nan", "inf".                        *)
(***************************************************************************)
EXTENDS Integers, Sequences, FiniteSets, TLC

VARIABLES
    dataset,     \* the embedded city.list.json: [ok, records, mistyped]
    citiesData,  \* cities.js:6  module variable: [loaded, cities]
    dbCities,    \* the SQLite table cities, rows in rowid (= id) order
    started,     \* the Go process has run database.Initialize
    req,         \* the request a client has sent, Idle between requests
    resp,        \* per route, the response given to req (NoResp: none yet)
    settings,          \* the SQLite table settings: key -> value
    adminCredentials,  \* the SQLite table admin_credentials: its row id = 1
    credentialsFile,   \* the file admin_credentials in the config directory
    launch,            \* the --port flag, $PORT and the port of the last start
    limiter,     \* the request counter httprate keeps for one client IP
    loader,      \* the progress of loadCitiesFromJSON through its transaction
    inflight,    \* per worker, the Go query it is in the middle of
    display      \* the address lookup of utils.GetDisplayAddress

cityVars == <<dataset, citiesData, dbCities, started, req, resp>>
adminVars == <<settings, adminCredentials, credentialsFile, launch>>
auxVars == <<limiter, loader, inflight, display>>
vars == <<cityVars, adminVars, auxVars>>

----------------------------------------------------------------------------
(* Bounds of the model *)

MaxCities == 3     \* longest dataset
MaxDeployed == 2   \* longest dataset among those of changing builds

----------------------------------------------------------------------------
(* Constants of the program *)

DefaultListLimit == 100      \* handleCities
MaxListLimit == 1000         \* handleCities
DefaultSearchLimit == 50     \* handleCitiesSearch
JsDefaultListLimit == 50     \* cities.js GET /
JsMaxListLimit == 1000       \* cities.js GET /
JsDefaultSearchLimit == 20   \* cities.js GET /search
JsMaxSearchLimit == 100      \* cities.js GET /search
DefaultCountryLimit == 100   \* handleCitiesByCountry
JsDefaultCountryLimit == 50  \* cities.js GET /country/:code
JsMaxCountryLimit == 1000    \* cities.js GET /country/:code

----------------------------------------------------------------------------
(* JavaScript numbers *)

Num(v) == [v |-> v, k |-> "fin"]
NaN == [v |-> 0, k |-> "nan"]
Infinity == [v |-> 0, k |-> "inf"]

isNaN(x) == x.k = "nan"

\* x < y on JavaScript numbers: false whenever either side is NaN
Lt(x, y) ==
    CASE x.k = "nan" \/ y.k = "nan" -> FALSE
      [] x.k = "inf" -> FALSE
      [] y.k = "inf" -> TRUE
      [] OTHER -> x.v < y.v

Gt(x, y) == Lt(y, x)

Deg(n) == n * 100000          \* n degrees in coordinate units
DegFrac(n, f) == n * 100000 + f

----------------------------------------------------------------------------
(* Request parameter values.  A string is a sequence of tokens: a numeric  *)
(* literal [v, num |-> TRUE] or a run of non-numeric text [num |-> FALSE]. *)

Undefined == [t |-> "undefined", s |-> <<>>]
Str(s) == [t |-> "string", s |-> s]
Lit(v) == [v |-> v, num |-> TRUE]
Junk == [v |-> 0, num |-> FALSE]

NumStr(v) == Str(<<Lit(v)>>)          \* "12"
NumJunkStr(v) == Str(<<Lit(v), Junk>>)  \* "12abc"
JunkStr == Str(<<Junk>>)              \* "abc"
EmptyStr == Str(<<>>)                 \* ""

\* parseFloat / parseInt: the longest numeric prefix, NaN when there is none
\* (undefined is first converted to the string "undefined")
parseFloat(raw) ==
    IF raw.t = "string" /\ raw.s # <<>> /\ Head(raw.s).num
    THEN Num(Head(raw.s).v)
    ELSE NaN

parseInt(raw) == parseFloat(raw)

----------------------------------------------------------------------------
(* The dataset *)

City(id, name, country, lon, lat) ==
    [id |-> id, name |-> name, country |-> country,
     coord |-> [lon |-> lon, lat |-> lat]]

GB == <<"G", "B">>
US == <<"U", "S">>

CityA == City(1, <<"A", "b">>, GB, Deg(0), Deg(12))
CityB == City(2, <<"b", "a", "B">>, GB, Deg(0), Deg(-12))
CityC == City(3, <<"a", "a">>, US, Deg(0), DegFrac(12, 2))
CityD == City(1, <<"E'", "a">>, US, Deg(0), Deg(12))   \* id and place of CityA

CityPool == {CityA, CityB, CityC, CityD}

\* the sequences of at most n different elements of S
RECURSIVE SeqsUpTo(_, _)
SeqsUpTo(S, n) ==
    IF n = 0 THEN {<<>>}
    ELSE LET shorter == SeqsUpTo(S, n - 1)
         IN shorter \cup
            {Append(s, x) : <<s, x>> \in
                {<<s, x>> \in shorter \X S : \A i \in 1..Len(s) : s[i] # x}}

\* A dataset is the text of city.list.json: ok says that it is a JSON array
\* of objects, records are its objects as cities, and mistyped are the
\* positions of the objects that give coord.lon as a JSON string ("0.0")
\* and not as a JSON number.
Datasets ==
    {[ok |-> TRUE, records |-> s, mistyped |-> {}] :
        s \in SeqsUpTo(CityPool, MaxCities)}
    \cup {[ok |-> FALSE, records |-> <<>>, mistyped |-> {}]}

\* the datasets a build may embed: of at most MaxDeployed objects, of which
\* at most one is mistyped, or not a JSON array at all
LoadDatasets ==
    {[ok |-> TRUE, records |-> s, mistyped |-> {}] :
        s \in SeqsUpTo(CityPool, MaxDeployed)}
    \cup {[ok |-> TRUE, records |-> s, mistyped |-> {k}] :
            <<s, k>> \in {<<s, k>> \in SeqsUpTo(CityPool, MaxDeployed)
                                          \X (1..MaxDeployed) : k <= Len(s)}}
    \cup {[ok |-> FALSE, records |-> <<>>, mistyped |-> {}]}

----------------------------------------------------------------------------
(* cities.js: loadCities and calculateDistance *)

\* loadCities (cities.js:8-20): the first call reads and parses the file,
\* a failure leaves the empty array; later calls return what is cached.
\* JSON.parse keeps an object whatever the types of its fields; a lon given
\* as a string is converted by the arithmetic of calculateDistance.
loadCities ==
    IF ~citiesData.loaded
    THEN [loaded |-> TRUE,
          cities |-> IF dataset.ok THEN dataset.records ELSE <<>>]
    ELSE citiesData

\* R * c of cities.js:23-31 evaluated in IEEE-754 double arithmetic at the
\* coordinates of the model, rounded to 0.1 m; NaN where the sum a exceeds 1
\* by one ulp, so that Math.sqrt(1 - a) is NaN (the antipodal pairs
\* (-12, 180)/(12, 0) and (12, 180)/(-12, 0)).
\* Key: <<lat1, lon1, lat2, lon2>>.
HaversineTable ==
       <<0, 0, 1200000, 0>> :> Num(13343391) @@ <<0, 0, -1200000, 0>> :> Num(13343391) @@
       <<0, 0, 1200002, 0>> :> Num(13343413) @@ <<0, 1200000, 1200000, 0>> :> Num(18800894) @@
       <<0, 1200000, -1200000, 0>> :> Num(18800894) @@ <<0, 1200000, 1200002, 0>> :> Num(18800910) @@
       <<0, -1200000, 1200000, 0>> :> Num(18800894) @@ <<0, -1200000, -1200000, 0>> :> Num(18800894) @@
       <<0, -1200000, 1200002, 0>> :> Num(18800910) @@ <<0, -9500000, 1200000, 0>> :> Num(105513387) @@
       <<0, -9500000, -1200000, 0>> :> Num(105513387) @@ <<0, -9500000, 1200002, 0>> :> Num(105513387) @@
       <<0, 18000000, 1200000, 0>> :> Num(186807477) @@ <<0, 18000000, -1200000, 0>> :> Num(186807477) @@
       <<0, 18000000, 1200002, 0>> :> Num(186807455) @@ <<0, 20000000, 1200000, 0>> :> Num(174357323) @@
       <<0, 20000000, -1200000, 0>> :> Num(174357323) @@ <<0, 20000000, 1200002, 0>> :> Num(174357312) @@
       <<1200000, 0, 1200000, 0>> :> Num(0) @@ <<1200000, 0, -1200000, 0>> :> Num(26686782) @@
       <<1200000, 0, 1200002, 0>> :> Num(22) @@ <<1200000, 1200000, 1200000, 0>> :> Num(13050771) @@
       <<1200000, 1200000, -1200000, 0>> :> Num(29792912) @@ <<1200000, 1200000, 1200002, 0>> :> Num(13050770) @@
       <<1200000, -1200000, 1200000, 0>> :> Num(13050771) @@ <<1200000, -1200000, -1200000, 0>> :> Num(29792912) @@
       <<1200000, -1200000, 1200002, 0>> :> Num(13050770) @@ <<1200000, -9500000, 1200000, 0>> :> Num(102634777) @@
       <<1200000, -9500000, -1200000, 0>> :> Num(108163819) @@ <<1200000, -9500000, 1200002, 0>> :> Num(102634773) @@
       <<1200000, 18000000, 1200000, 0>> :> Num(173464086) @@ <<1200000, 18000000, -1200000, 0>> :> NaN @@
       <<1200000, 18000000, 1200002, 0>> :> Num(173464063) @@ <<1200000, 20000000, 1200000, 0>> :> Num(165517221) @@
       <<1200000, 20000000, -1200000, 0>> :> Num(178402688) @@ <<1200000, 20000000, 1200002, 0>> :> Num(165517204) @@
       <<-1200000, 0, 1200000, 0>> :> Num(26686782) @@ <<-1200000, 0, -1200000, 0>> :> Num(0) @@
       <<-1200000, 0, 1200002, 0>> :> Num(26686805) @@ <<-1200000, 1200000, 1200000, 0>> :> Num(29792912) @@
       <<-1200000, 1200000, -1200000, 0>> :> Num(13050771) @@ <<-1200000, 1200000, 1200002, 0>> :> Num(29792931) @@
       <<-1200000, -1200000, 1200000, 0>> :> Num(29792912) @@ <<-1200000, -1200000, -1200000, 0>> :> Num(13050771) @@
       <<-1200000, -1200000, 1200002, 0>> :> Num(29792931) @@ <<-1200000, -9500000, 1200000, 0>> :> Num(108163819) @@
       <<-1200000, -9500000, -1200000, 0>> :> Num(102634777) @@ <<-1200000, -9500000, 1200002, 0>> :> Num(108163823) @@
       <<-1200000, 18000000, 1200000, 0>> :> NaN @@ <<-1200000, 18000000, -1200000, 0>> :> Num(173464086) @@
       <<-1200000, 18000000, 1200002, 0>> :> Num(200150846) @@ <<-1200000, 20000000, 1200000, 0>> :> Num(178402688) @@
       <<-1200000, 20000000, -1200000, 0>> :> Num(165517221) @@ <<-1200000, 20000000, 1200002, 0>> :> Num(178402689) @@
       <<-9500000, 0, 1200000, 0>> :> Num(118978572) @@ <<-9500000, 0, -1200000, 0>> :> Num(92291789) @@
       <<-9500000, 0, 1200002, 0>> :> Num(118978594) @@ <<-9500000, 1200000, 1200000, 0>> :> Num(118854497) @@
       <<-9500000, 1200000, -1200000, 0>> :> Num(92172196) @@ <<-9500000, 1200000, 1200002, 0>> :> Num(118854519) @@
       <<-9500000, -1200000, 1200000, 0>> :> Num(118854497) @@ <<-9500000, -1200000, -1200000, 0>> :> Num(92172196) @@
       <<-9500000, -1200000, 1200002, 0>> :> Num(118854519) @@ <<-9500000, -9500000, 1200000, 0>> :> Num(112883816) @@
       <<-9500000, -9500000, -1200000, 0>> :> Num(86299309) @@ <<-9500000, -9500000, 1200002, 0>> :> Num(112883838) @@
       <<-9500000, 18000000, 1200000, 0>> :> Num(107859079) @@ <<-9500000, 18000000, -1200000, 0>> :> Num(81172296) @@
       <<-9500000, 18000000, 1200002, 0>> :> Num(107859101) @@ <<-9500000, 20000000, 1200000, 0>> :> Num(108189196) @@
       <<-9500000, 20000000, -1200000, 0>> :> Num(81514534) @@ <<-9500000, 20000000, 1200002, 0>> :> Num(108189218) @@
       <<18000000, 0, 1200000, 0>> :> Num(186807477) @@ <<18000000, 0, -1200000, 0>> :> Num(186807477) @@
       <<18000000, 0, 1200002, 0>> :> Num(186807455) @@ <<18000000, 1200000, 1200000, 0>> :> Num(181349974) @@
       <<18000000, 1200000, -1200000, 0>> :> Num(181349974) @@ <<18000000, 1200000, 1200002, 0>> :> Num(181349958) @@
       <<18000000, -1200000, 1200000, 0>> :> Num(181349974) @@ <<18000000, -1200000, -1200000, 0>> :> Num(181349974) @@
       <<18000000, -1200000, 1200002, 0>> :> Num(181349958) @@ <<18000000, -9500000, 1200000, 0>> :> Num(94637481) @@
       <<18000000, -9500000, -1200000, 0>> :> Num(94637481) @@ <<18000000, -9500000, 1200002, 0>> :> Num(94637481) @@
       <<18000000, 18000000, 1200000, 0>> :> Num(13343391) @@ <<18000000, 18000000, -1200000, 0>> :> Num(13343391) @@
       <<18000000, 18000000, 1200002, 0>> :> Num(13343413) @@ <<18000000, 20000000, 1200000, 0>> :> Num(25793545) @@
       <<18000000, 20000000, -1200000, 0>> :> Num(25793545) @@ <<18000000, 20000000, 1200002, 0>> :> Num(25793556) @@
       <<20000000, 0, 1200000, 0>> :> Num(191255274) @@ <<20000000, 0, -1200000, 0>> :> Num(164568491) @@
       <<20000000, 0, 1200002, 0>> :> Num(191255296) @@ <<20000000, 1200000, 1200000, 0>> :> Num(184553725) @@
       <<20000000, 1200000, -1200000, 0>> :> Num(162222257) @@ <<20000000, 1200000, 1200002, 0>> :> Num(184553738) @@
       <<20000000, -1200000, 1200000, 0>> :> Num(184553725) @@ <<20000000, -1200000, -1200000, 0>> :> Num(162222257) @@
       <<20000000, -1200000, 1200002, 0>> :> Num(184553738) @@ <<20000000, -9500000, 1200000, 0>> :> Num(99502041) @@
       <<20000000, -9500000, -1200000, 0>> :> Num(90404113) @@ <<20000000, -9500000, 1200002, 0>> :> Num(99502049) @@
       <<20000000, 18000000, 1200000, 0>> :> Num(35582377) @@ <<20000000, 18000000, -1200000, 0>> :> Num(8895594) @@
       <<20000000, 18000000, 1200002, 0>> :> Num(35582399) @@ <<20000000, 20000000, 1200000, 0>> :> Num(41775195) @@
       <<20000000, 20000000, -1200000, 0>> :> Num(23126683) @@ <<20000000, 20000000, 1200002, 0>> :> Num(41775214)

\* calculateDistance (cities.js:22-32).  A NaN argument gives NaN.
calculateDistance(lat1, lon1, lat2, lon2) ==
    IF lat1.k # "fin" \/ lon1.k # "fin"
    THEN NaN
    ELSE HaversineTable[<<lat1.v, lon1.v, lat2, lon2>>]

\* Math.round(minDistance * 100) / 100 (cities.js:282, 322): to the nearest
\* 0.01 km, halves upwards
Round2(d) == Num(((d.v + 50) \div 100) * 100)

----------------------------------------------------------------------------
(* Responses *)

NoResp == [status |-> 0]
ErrNumbers == "Both longitude and latitude must be valid numbers"
ErrRange == "Invalid coordinates: longitude must be between -180 and 180, latitude between -90 and 90"
ErrRequired == "Both longitude and latitude are required in request body"
ErrNoCities == "No cities found"

\* scanned: how many cities the handler computed a distance for
Error(status, msg) == [status |-> status, error |-> msg, scanned |-> 0]
Closest(city, distance, n) ==
    [status |-> 200, city |-> city, distance |-> distance, scanned |-> n]

Routes ==
    {"js GET /coordinates", "js POST /coordinates", "js GET /",
     "js GET /search", "go handleCities", "go handleCitiesSearch",
     "go handleCitiesByCountry", "js GET /country/:code", "js GET /:id",
     "go handleHealth", "go handleAdminSettings", "go handleUpdateSettings",
     "go handleAdminStats", "go handleAdminDashboard",
     "go handleAdminSettingsPage"}

NoResponses == [r \in Routes |-> NoResp]

Idle == [op |-> "none"]

Answer(route, response) ==
    /\ resp' = [resp EXCEPT ![route] = response]
    /\ UNCHANGED req

\* what a client may send as longitude and as latitude
LonValues ==
    {Undefined, JunkStr, NumStr(Deg(0)), NumStr(Deg(180)), NumStr(Deg(200))}
LatValues ==
    {Undefined, JunkStr, NumStr(Deg(0)), NumStr(Deg(12)), NumStr(Deg(-12)),
     NumStr(Deg(-95)), NumJunkStr(Deg(12))}

----------------------------------------------------------------------------
(* GET /cities/coordinates (cities.js:255-287) *)

\* x <= y on JavaScript numbers
Le(x, y) == Lt(x, y) \/ (x.k = "fin" /\ y.k = "fin" /\ x.v = y.v) \/ (x.k = "inf" /\ y.k = "inf")

\* variant: a later city at the same distance replaces the earlier one
GetCloserOrEqual(distance, minDistance) == Le(distance, minDistance)

\* variant: the comparison is made on distances rounded to 0.01 km
GetCloserRounded(distance, minDistance) ==
    Lt(IF distance.k = "fin" THEN Round2(distance) ELSE distance,
       IF minDistance.k = "fin" THEN Round2(minDistance) ELSE minDistance)

\* cities.js:273
GetCloser(distance, minDistance) == Lt(distance, minDistance)

\* the loop of cities.js:271-277; closestCity is an index, 0 for null
RECURSIVE GetScan(_, _, _, _, _)
GetScan(cities, i, latitude, longitude, acc) ==
    IF i > Len(cities) THEN acc
    ELSE LET distance == calculateDistance(latitude, longitude,
                             cities[i].coord.lat, cities[i].coord.lon)
         IN GetScan(cities, i + 1, latitude, longitude,
                    IF GetCloser(distance, acc.minDistance)
                    THEN [closestCity |-> i, minDistance |-> distance]
                    ELSE acc)

\* variant: the latitude bounds are not checked
GetOutOfRangeLongitudeOnly(longitude, latitude) ==
    \/ Lt(longitude, Num(Deg(-180)))
    \/ Gt(longitude, Num(Deg(180)))

\* cities.js:263
GetOutOfRange(longitude, latitude) ==
    \/ Lt(longitude, Num(Deg(-180)))
    \/ Gt(longitude, Num(Deg(180)))
    \/ Lt(latitude, Num(Deg(-90)))
    \/ Gt(latitude, Num(Deg(90)))

\* variant: the response is built without the test of closestCity
GetNearestUnchecked(cities, longitude, latitude) ==
    LET found == GetScan(cities, 1, latitude, longitude,
                         [closestCity |-> 0, minDistance |-> Infinity])
    IN Closest(IF found.closestCity # 0 THEN cities[found.closestCity]
               ELSE [id |-> 0],
               found.minDistance, Len(cities))

\* cities.js:267-286
GetNearest(cities, longitude, latitude) ==
    LET found == GetScan(cities, 1, latitude, longitude,
                         [closestCity |-> 0, minDistance |-> Infinity])
    IN IF found.closestCity # 0
       THEN Closest(cities[found.closestCity], Round2(found.minDistance),
                    Len(cities))
       ELSE [Error(404, ErrNoCities) EXCEPT !.scanned = Len(cities)]

GetCoordinates ==
    /\ req.op = "coordinates"
    /\ LET longitude == parseFloat(req.longitude)
           latitude == parseFloat(req.latitude)
       IN IF isNaN(longitude) \/ isNaN(latitude)
          THEN /\ Answer("js GET /coordinates", Error(400, ErrNumbers))
               /\ UNCHANGED citiesData
          ELSE IF GetOutOfRange(longitude, latitude)
          THEN /\ Answer("js GET /coordinates", Error(400, ErrRange))
               /\ UNCHANGED citiesData
          ELSE /\ citiesData' = loadCities
               /\ Answer("js GET /coordinates",
                         GetNearest(loadCities.cities, longitude, latitude))
    /\ UNCHANGED <<dataset, dbCities, started>>
    /\ UNCHANGED <<adminVars, auxVars>>

----------------------------------------------------------------------------
(* POST /cities/coordinates (cities.js:289-327) *)

\* cities.js:313
PostCloser(distance, minDistance) == Lt(distance, minDistance)

\* variant: the query point is handed over as (lon, lat)
RECURSIVE PostScanSwapped(_, _, _, _, _)
PostScanSwapped(cities, i, lat, lon, acc) ==
    IF i > Len(cities) THEN acc
    ELSE LET distance == calculateDistance(lon, lat,
                             cities[i].coord.lat, cities[i].coord.lon)
         IN PostScanSwapped(cities, i + 1, lat, lon,
                            IF PostCloser(distance, acc.minDistance)
                            THEN [closestCity |-> i, minDistance |-> distance]
                            ELSE acc)

\* the loop of cities.js:311-317
RECURSIVE PostScan(_, _, _, _, _)
PostScan(cities, i, lat, lon, acc) ==
    IF i > Len(cities) THEN acc
    ELSE LET distance == calculateDistance(lat, lon,
                             cities[i].coord.lat, cities[i].coord.lon)
         IN PostScan(cities, i + 1, lat, lon,
                     IF PostCloser(distance, acc.minDistance)
                     THEN [closestCity |-> i, minDistance |-> distance]
                     ELSE acc)

\* cities.js:303
PostOutOfRange(lon, lat) ==
    \/ Lt(lon, Num(Deg(-180)))
    \/ Gt(lon, Num(Deg(180)))
    \/ Lt(lat, Num(Deg(-90)))
    \/ Gt(lat, Num(Deg(90)))

\* cities.js:307-326
PostNearest(cities, lon, lat) ==
    LET found == PostScan(cities, 1, lat, lon,
                          [closestCity |-> 0, minDistance |-> Infinity])
    IN IF found.closestCity # 0
       THEN Closest(cities[found.closestCity], Round2(found.minDistance),
                    Len(cities))
       ELSE [Error(404, ErrNoCities) EXCEPT !.scanned = Len(cities)]

PostCoordinates ==
    /\ req.op = "coordinates"
    /\ LET longitude == req.longitude
           latitude == req.latitude
           lon == parseFloat(longitude)
           lat == parseFloat(latitude)
       IN IF longitude = Undefined \/ latitude = Undefined
          THEN /\ Answer("js POST /coordinates", Error(400, ErrRequired))
               /\ UNCHANGED citiesData
          ELSE IF isNaN(lon) \/ isNaN(lat)
          THEN /\ Answer("js POST /coordinates", Error(400, ErrNumbers))
               /\ UNCHANGED citiesData
          ELSE IF PostOutOfRange(lon, lat)
          THEN /\ Answer("js POST /coordinates", Error(400, ErrRange))
               /\ UNCHANGED citiesData
          ELSE /\ citiesData' = loadCities
               /\ Answer("js POST /coordinates",
                         PostNearest(loadCities.cities, lon, lat))
    /\ UNCHANGED <<dataset, dbCities, started>>
    /\ UNCHANGED <<adminVars, auxVars>>

----------------------------------------------------------------------------
(* package database: the cities table and its load *)

Row(city) ==
    [id |-> city.id, name |-> city.name, country |-> city.country,
     lon |-> city.coord.lon, lat |-> city.coord.lat]

\* stmt.Exec of database.go:209 against the schema of database.go:63-69:
\* id is the primary key, so a second row with a stored id is refused (the
\* error is logged and the loop goes on); rows are kept in rowid order.
InsertCity(table, city) ==
    IF \E i \in 1..Len(table) : table[i].id = city.id
    THEN table
    ELSE LET before == SelectSeq(table, LAMBDA r : r.id < city.id)
             after == SelectSeq(table, LAMBDA r : r.id > city.id)
         IN before \o <<Row(city)>> \o after

RECURSIVE InsertAll(_, _, _)
InsertAll(table, cities, i) ==
    IF i > Len(cities) THEN table
    ELSE InsertAll(InsertCity(table, cities[i]), cities, i + 1)

\* json.Unmarshal(jsonData, &cities) (database.go:189): an error when the
\* text is not a JSON array of objects, and also when some object gives a
\* JSON string where the struct has a float64 (UnmarshalTypeError)
Unmarshal(jsonData) ==
    [err |-> ~jsonData.ok \/ jsonData.mistyped # {},
     cities |-> jsonData.records]

\* variant: the objects before the first mistyped one are stored
loadCitiesFromJSONPartly(table, jsonData) ==
    IF ~jsonData.ok THEN table
    ELSE LET good == {n \in 0..Len(jsonData.records) :
                         \A i \in 1..n : i \notin jsonData.mistyped}
             n == CHOOSE n \in good : \A m \in good : m <= n
         IN InsertAll(table, SubSeq(jsonData.records, 1, n), 1)

\* loadCitiesFromJSON (database.go:177-216): a dataset that does not decode
\* is an error and stores nothing
loadCitiesFromJSON(table, jsonData) ==
    IF Unmarshal(jsonData).err THEN table
    ELSE InsertAll(table, Unmarshal(jsonData).cities, 1)

\* the settings the model follows, of those of database.go:160-170
SettingKeys == {"server.title", "server.http_port"}

\* their default values: 'CityList API' and '0'
DefaultSettings ==
    [k \in SettingKeys |->
        IF k = "server.http_port" THEN <<Lit(0)>> ELSE <<Junk>>]

\* createTables (database.go:60-175): INSERT OR IGNORE gives a setting that
\* has no row its default value and leaves a stored one alone
createTables(table) ==
    [k \in SettingKeys |->
        IF k \in DOMAIN table THEN table[k] ELSE DefaultSettings[k]]

\* variant: every start loads
InitializeReload ==
    /\ ~started
    /\ dbCities' = loadCitiesFromJSON(dbCities, dataset)
    /\ started' = TRUE
    /\ UNCHANGED <<dataset, citiesData, req, resp>>
    /\ settings' = createTables(settings)
    /\ UNCHANGED <<adminCredentials, credentialsFile, launch, auxVars>>

\* Initialize (database.go:24-58): load when the table is empty
Initialize ==
    /\ ~started
    /\ dbCities' = IF Len(dbCities) = 0
                   THEN loadCitiesFromJSON(dbCities, dataset)
                   ELSE dbCities
    /\ started' = TRUE
    /\ UNCHANGED <<dataset, citiesData, req, resp>>
    /\ settings' = createTables(settings)
    /\ UNCHANGED <<adminCredentials, credentialsFile, launch, auxVars>>

----------------------------------------------------------------------------
(* package server: GET /api/v1/cities *)

\* r.URL.Query().Get: the empty string for a parameter that is absent
QueryGet(raw) == IF raw.t = "string" THEN raw.s ELSE <<>>

\* strconv.Atoi with its error dropped: 0 unless the whole string is a number
Atoi(s) == IF Len(s) = 1 /\ s[1].num THEN s[1].v ELSE 0

Min(a, b) == IF a < b THEN a ELSE b
Max(a, b) == IF a > b THEN a ELSE b

\* variant: the row at the offset is skipped too
SelectLimitAfterOffset(table, limit, offset) ==
    LET skip == Max(offset, 0) + 1
        last == IF limit < 0 THEN Len(table) ELSE Min(Len(table), skip + limit)
    IN SubSeq(table, skip + 1, last)

\* variant: the rows are counted from the first row, not from the offset
SelectLimitFromStart(table, limit, offset) ==
    LET skip == Max(offset, 0)
        last == IF limit < 0 THEN Len(table) ELSE Min(Len(table), limit)
    IN IF skip + 1 > last THEN <<>> ELSE SubSeq(table, skip + 1, last)

\* SELECT ... FROM cities LIMIT ? OFFSET ? (server, handleCities) as SQLite
\* runs it: rows in rowid order, a negative LIMIT is no limit, a negative
\* OFFSET is 0
SelectLimitOffset(table, limit, offset) ==
    LET skip == Max(offset, 0)
        last == IF limit < 0 THEN Len(table) ELSE Min(Len(table), skip + limit)
    IN SubSeq(table, skip + 1, last)

\* the limit handleCities uses
CitiesLimit(raw) ==
    LET limit == Atoi(QueryGet(raw))
        defaulted == IF limit = 0 THEN DefaultListLimit ELSE limit
    IN IF defaulted > MaxListLimit THEN MaxListLimit ELSE defaulted

\* the body of handleCities: the response to ?limit=&offset=
CitiesResponse(table, limitRaw, offsetRaw) ==
    LET limit == CitiesLimit(limitRaw)
        offset == Atoi(QueryGet(offsetRaw))
    IN [status |-> 200,
        cities |-> SelectLimitOffset(table, limit, offset),
        total |-> Len(table),
        limit |-> limit,
        offset |-> offset]

handleCities ==
    /\ started
    /\ req.op = "handleCities"
    /\ Answer("go handleCities", CitiesResponse(dbCities, req.limit, req.offset))
    /\ UNCHANGED <<dataset, citiesData, dbCities, started>>
    /\ UNCHANGED <<adminVars, auxVars>>

----------------------------------------------------------------------------
(* cities.js: GET / (cities.js:110-129) *)

\* x || d on a parsed integer: d for NaN and for 0
OrDefault(x, d) == IF x.k = "nan" \/ x.v = 0 THEN d ELSE x.v

\* Array.prototype.slice(start, end): negative indexes count from the end
RelativeIndex(k, len) == IF k < 0 THEN Max(len + k, 0) ELSE Min(k, len)
slice(arr, start, end) ==
    SubSeq(arr, RelativeIndex(start, Len(arr)) + 1,
           RelativeIndex(end, Len(arr)))

\* Math.ceil(n / d) for n >= 0 and d # 0
CeilDiv(n, d) == IF d > 0 THEN (n + d - 1) \div d ELSE 0 - (n \div (0 - d))

jsList ==
    /\ req.op = "js list"
    /\ LET cities == loadCities.cities
           page == OrDefault(parseInt(req.page), 1)
           limit == Min(OrDefault(parseInt(req.limit), JsDefaultListLimit),
                        JsMaxListLimit)
           startIndex == (page - 1) * limit
           endIndex == startIndex + limit
       IN /\ citiesData' = loadCities
          /\ Answer("js GET /",
                    [status |-> 200,
                     cities |-> slice(cities, startIndex, endIndex),
                     pagination |-> [page |-> page, limit |-> limit,
                                     total |-> Len(cities),
                                     pages |-> CeilDiv(Len(cities), limit)]])
    /\ UNCHANGED <<dataset, dbCities, started>>
    /\ UNCHANGED <<adminVars, auxVars>>

----------------------------------------------------------------------------
(* Text: a string of characters is a sequence of one-character strings *)

\* e' stands for the letter e with acute accent (U+00E9) and E' for its
\* capital (U+00C9): letters outside ASCII
Letters == <<"a", "b", "g", "s", "u", "e'">>
Capitals == <<"A", "B", "G", "S", "U", "E'">>
\* the letters of ASCII among them
AsciiLetters == <<"a", "b", "g", "s", "u">>
AsciiCapitals == <<"A", "B", "G", "S", "U">>

toLower(c) ==
    IF \E i \in 1..Len(Capitals) : Capitals[i] = c
    THEN Letters[CHOOSE i \in 1..Len(Capitals) : Capitals[i] = c]
    ELSE c

toLowerCase(s) == [i \in 1..Len(s) |-> toLower(s[i])]

toUpper(c) ==
    IF \E i \in 1..Len(Letters) : Letters[i] = c
    THEN Capitals[CHOOSE i \in 1..Len(Letters) : Letters[i] = c]
    ELSE c

toUpperCase(s) == [i \in 1..Len(s) |-> toUpper(s[i])]

\* the case folding of SQLite's built-in LIKE: the 26 letters of ASCII only
LikeFold(c) ==
    IF \E i \in 1..Len(AsciiCapitals) : AsciiCapitals[i] = c
    THEN AsciiLetters[CHOOSE i \in 1..Len(AsciiCapitals) : AsciiCapitals[i] = c]
    ELSE c

\* String.prototype.includes
includes(s, sub) ==
    \E i \in 0..(Len(s) - Len(sub)) : SubSeq(s, i + 1, i + Len(sub)) = sub

\* SQLite's LIKE: % is any run of characters, _ is any one character, and
\* ASCII letters match without regard to case
RECURSIVE Like(_, _)
Like(pattern, s) ==
    IF pattern = <<>> THEN s = <<>>
    ELSE IF Head(pattern) = "%"
    THEN Like(Tail(pattern), s) \/ (s # <<>> /\ Like(pattern, Tail(s)))
    ELSE /\ s # <<>>
         /\ Head(pattern) = "_" \/ LikeFold(Head(pattern)) = LikeFold(Head(s))
         /\ Like(Tail(pattern), Tail(s))

----------------------------------------------------------------------------
(* package server: GET /api/v1/cities/search *)

\* SELECT ... FROM cities WHERE name LIKE ? LIMIT ?
SelectNameLike(table, searchQuery, limit) ==
    LET rows == SelectSeq(table, LAMBDA r : Like(searchQuery, r.name))
    IN SubSeq(rows, 1, IF limit < 0 THEN Len(rows) ELSE Min(Len(rows), limit))

\* the limit handleCitiesSearch uses
SearchLimit(raw) ==
    LET limit == Atoi(QueryGet(raw))
    IN IF limit = 0 THEN DefaultSearchLimit ELSE limit

\* what handleCitiesSearch answers; limit is the value bound to LIMIT ?,
\* which the body does not carry
CitiesSearchResponse(table, qRaw, limitRaw) ==
    LET query == QueryGet(qRaw)
        limit == SearchLimit(limitRaw)
        searchQuery == <<"%">> \o query \o <<"%">>
        cities == SelectNameLike(table, searchQuery, limit)
    IN IF query = <<>>
       THEN [status |-> 400, code |-> "MISSING_PARAMETER"]
       ELSE [status |-> 200, cities |-> cities, query |-> query,
             count |-> Len(cities), limit |-> limit]

\* handleCitiesSearch
handleCitiesSearch ==
    /\ started
    /\ req.op = "search"
    /\ Answer("go handleCitiesSearch",
              CitiesSearchResponse(dbCities, req.q, req.limit))
    /\ UNCHANGED <<dataset, citiesData, dbCities, started>>
    /\ UNCHANGED <<adminVars, auxVars>>

----------------------------------------------------------------------------
(* cities.js: GET /search (cities.js:163-178) *)

\* what the route answers; limit is the constant of cities.js:166, which
\* the body does not carry
jsSearchResponse(cities, query, limitRaw) ==
    LET limit == Min(OrDefault(parseInt(limitRaw), JsDefaultSearchLimit),
                     JsMaxSearchLimit)
        searchQuery == toLowerCase(query.s)
        results == slice(SelectSeq(cities,
                             LAMBDA city :
                                 includes(toLowerCase(city.name), searchQuery)),
                         0, limit)
    IN IF query.t = "undefined" \/ query.s = <<>> \/ Len(query.s) < 2
       THEN [status |-> 400,
             error |-> "Search query must be at least 2 characters"]
       ELSE [status |-> 200, cities |-> results, limit |-> limit]

jsSearch ==
    /\ req.op = "search"
    /\ citiesData' = loadCities
    /\ Answer("js GET /search",
              jsSearchResponse(loadCities.cities, req.q, req.limit))
    /\ UNCHANGED <<dataset, dbCities, started>>
    /\ UNCHANGED <<adminVars, auxVars>>

----------------------------------------------------------------------------
(* package server: GET /api/v1/cities/country/{code} *)

\* len of a Go string: its bytes in UTF-8
ByteLen(s) ==
    LET bytes(c) == IF \E i \in 1..Len(Letters) :
                          (Letters[i] = c \/ Capitals[i] = c)
                          /\ ~\E k \in 1..Len(AsciiLetters) :
                                  AsciiLetters[k] = c \/ AsciiCapitals[k] = c
                    THEN 2 ELSE 1
        sum[i \in 0..Len(s)] == IF i = 0 THEN 0 ELSE sum[i - 1] + bytes(s[i])
    IN sum[Len(s)]

\* strings.ToUpper(chi.URLParam(r, "code"))
CountryCodeAsSent(code) == code
CountryCode(code) == toUpperCase(code)

\* SELECT ... FROM cities WHERE country = ? LIMIT ?  (rows of one country
\* come in rowid order, with or without idx_cities_country)
SelectCountry(table, countryCode, limit) ==
    LET rows == SelectSeq(table, LAMBDA r : r.country = countryCode)
    IN SubSeq(rows, 1, IF limit < 0 THEN Len(rows) ELSE Min(Len(rows), limit))

\* the limit handleCitiesByCountry uses
CountryLimit(raw) ==
    LET limit == Atoi(QueryGet(raw))
    IN IF limit = 0 THEN DefaultCountryLimit ELSE limit

\* what handleCitiesByCountry answers; limit is the value bound to LIMIT ?,
\* which the body does not carry
CitiesByCountryResponse(table, code, limitRaw) ==
    LET countryCode == CountryCode(code)
        limit == CountryLimit(limitRaw)
        cities == SelectCountry(table, countryCode, limit)
    IN IF countryCode = <<>> \/ ByteLen(countryCode) # 2
       THEN [status |-> 400, code |-> "INVALID_COUNTRY"]
       ELSE [status |-> 200, cities |-> cities, country |-> countryCode,
             count |-> Len(cities), limit |-> limit]

handleCitiesByCountry ==
    /\ started
    /\ req.op = "country"
    /\ Answer("go handleCitiesByCountry",
              CitiesByCountryResponse(dbCities, req.code, req.limit))
    /\ UNCHANGED <<dataset, citiesData, dbCities, started>>
    /\ UNCHANGED <<adminVars, auxVars>>

----------------------------------------------------------------------------
(* cities.js: GET /country/:code (cities.js:396-410) *)

\* what the route answers; limit is the constant of cities.js:399, which
\* the body does not carry
jsCountryResponse(cities, code, limitRaw) ==
    LET countryCode == toUpperCase(code)
        limit == Min(OrDefault(parseInt(limitRaw), JsDefaultCountryLimit),
                     JsMaxCountryLimit)
        results == slice(SelectSeq(cities,
                             LAMBDA city : city.country = countryCode),
                         0, limit)
    IN IF Len(countryCode) # 2
       THEN [status |-> 400,
             error |-> "Country code must be 2 characters (ISO 3166-1 alpha-2)"]
       ELSE [status |-> 200, cities |-> results, limit |-> limit]

jsCountry ==
    /\ req.op = "country"
    /\ citiesData' = loadCities
    /\ Answer("js GET /country/:code",
              jsCountryResponse(loadCities.cities, req.code, req.limit))
    /\ UNCHANGED <<dataset, dbCities, started>>
    /\ UNCHANGED <<adminVars, auxVars>>

----------------------------------------------------------------------------
(* cities.js: GET /:id (cities.js:352-362) *)

\* Array.prototype.find with c => c.id === cityId: the first such city
find(cities, cityId) ==
    IF \E i \in 1..Len(cities) : Num(cities[i].id) = cityId
    THEN [found |-> TRUE,
          city |-> cities[CHOOSE i \in 1..Len(cities) :
                             /\ Num(cities[i].id) = cityId
                             /\ \A j \in 1..(i - 1) : Num(cities[j].id) # cityId]]
    ELSE [found |-> FALSE]

jsCityById ==
    /\ req.op = "id"
    /\ citiesData' = loadCities
    /\ LET cityId == parseInt(req.id)
           city == find(loadCities.cities, cityId)
       IN IF ~city.found
          THEN Answer("js GET /:id", [status |-> 404, error |-> "City not found"])
          ELSE Answer("js GET /:id", [status |-> 200, city |-> city.city])
    /\ UNCHANGED <<dataset, dbCities, started>>
    /\ UNCHANGED <<adminVars, auxVars>>

----------------------------------------------------------------------------
(* Clients *)

\* what a client may send as limit, offset, page and q
LimitValues ==
    {Undefined, JunkStr, NumJunkStr(2)}
    \cup {NumStr(n) : n \in {-1, 0, 1, 2, DefaultListLimit, MaxListLimit,
                             MaxListLimit + 1}}
OffsetValues == {Undefined} \cup {NumStr(n) : n \in -1..(MaxCities + 1)}
PageValues == {Undefined} \cup {NumStr(n) : n \in {-1, 0, 1, 2}}
QValues ==
    {Undefined, EmptyStr}
    \cup {Str(s) : s \in {<<"a">>, <<"a", "b">>, <<"A", "B">>, <<"b", "a">>,
                          <<"a", "a">>, <<"b", "b">>, <<"a", "_">>, <<"%", "%">>,
                          <<"e'", "a">>, <<"E'", "A">>}}
SearchLimitValues ==
    {Undefined} \cup {NumStr(n) : n \in {-1, 1, 2, JsMaxSearchLimit + 1}}
\* the {code} of the path: never empty
CodeValues ==
    {<<"g", "b">>, <<"G", "B">>, <<"G", "b">>, <<"u", "s">>, <<"a", "b">>,
     <<"g">>, <<"g", "b", "s">>, <<"u", "1">>, <<"e'">>}
CountryLimitValues ==
    {Undefined} \cup {NumStr(n) : n \in {-1, 1, JsMaxCountryLimit + 1}}
\* the :id of the path
IdValues == {JunkStr, NumJunkStr(1)} \cup {NumStr(n) : n \in 0..(MaxCities + 1)}

Requests ==
    {[op |-> "coordinates", latitude |-> lat, longitude |-> lon] :
        lon \in LonValues, lat \in LatValues}
    \cup {[op |-> "handleCities", limit |-> l, offset |-> o] :
        l \in LimitValues, o \in OffsetValues}
    \cup {[op |-> "js list", limit |-> l, page |-> p] :
        p \in PageValues, l \in LimitValues}
    \cup {[op |-> "search", limit |-> l, q |-> q] :
        q \in QValues, l \in SearchLimitValues}
    \cup {[op |-> "country", limit |-> l, code |-> c] :
        c \in CodeValues, l \in CountryLimitValues}
    \cup {[id |-> i, op |-> "id"] : i \in IdValues}

\* a client sends a request
ClientRequest ==
    /\ req = Idle
    /\ req' \in Requests
    /\ resp' = NoResponses
    /\ UNCHANGED <<dataset, citiesData, dbCities, started>>
    /\ UNCHANGED <<adminVars, auxVars>>

\* the client has its answer
ClientDone ==
    /\ req # Idle
    /\ \E r \in Routes : resp[r] # NoResp
    /\ req' = Idle
    /\ resp' = NoResponses
    /\ UNCHANGED <<dataset, citiesData, dbCities, started>>
    /\ UNCHANGED <<adminVars, auxVars>>

----------------------------------------------------------------------------
(* The system *)

\* a database file that does not exist yet
InitAdmin ==
    /\ settings = <<>>
    /\ adminCredentials = [exists |-> FALSE]
    /\ credentialsFile = [exists |-> FALSE]
    /\ launch = [cliPort |-> <<>>, envPort |-> <<>>, httpPort |-> <<>>]

\* no request counted, no load begun, no query running, no address asked
InitAux ==
    /\ limiter = 0
    /\ loader = [phase |-> "none", next |-> 1, tx |-> <<>>]
    /\ inflight = <<>>
    /\ display = [asked |-> FALSE]

Init ==
    /\ dataset \in Datasets
    /\ citiesData = [loaded |-> FALSE, cities |-> <<>>]
    /\ dbCities = <<>>
    /\ started = FALSE
    /\ req = Idle
    /\ resp = NoResponses
    /\ InitAdmin
    /\ InitAux

Next ==
    \/ Initialize
    \/ ClientRequest
    \/ ClientDone
    \/ GetCoordinates
    \/ PostCoordinates
    \/ handleCities
    \/ jsList
    \/ handleCitiesSearch
    \/ jsSearch
    \/ handleCitiesByCountry
    \/ jsCountry
    \/ jsCityById

Spec == Init /\ [][Next]_vars

----------------------------------------------------------------------------
(* Deployments: the Go process is stopped and started again on the same   *)
(* database file, possibly as a new build with another embedded dataset.  *)

\* the Go process ends; the database file stays
Exit ==
    /\ started
    /\ started' = FALSE
    /\ UNCHANGED <<dataset, citiesData, dbCities, req, resp>>
    /\ UNCHANGED <<adminVars, auxVars>>

\* a build with another dataset is installed
Redeploy ==
    /\ ~started
    /\ dataset' \in LoadDatasets \ {dataset}
    /\ UNCHANGED <<citiesData, dbCities, started, req, resp>>
    /\ UNCHANGED <<adminVars, auxVars>>

\* Initialize when tx.Commit of the load fails (database.go:215, 48-50): the
\* deferred Rollback leaves the table as it was, the error is logged and
\* Initialize returns the database
InitializeCommitFails ==
    /\ ~started
    /\ Len(dbCities) = 0
    /\ ~Unmarshal(dataset).err
    /\ started' = TRUE
    /\ settings' = createTables(settings)
    /\ UNCHANGED <<dataset, citiesData, dbCities, req, resp, adminCredentials,
                   credentialsFile, launch, auxVars>>

InitLoad ==
    /\ dataset \in LoadDatasets
    /\ citiesData = [loaded |-> FALSE, cities |-> <<>>]
    /\ dbCities = <<>>
    /\ started = FALSE
    /\ req = Idle
    /\ resp = NoResponses
    /\ InitAdmin
    /\ InitAux

NextLoad ==
    \/ Initialize
    \/ InitializeCommitFails
    \/ Exit
    \/ Redeploy

SpecLoad == InitLoad /\ [][NextLoad]_vars

----------------------------------------------------------------------------
(* package auth and package main: the admin credentials and the port *)

PortBase == 64000    \* database.go:499
PortCount == 1000    \* database.go:499

\* what generateRandomString (auth.go:60-67) may give as password and token
Passwords == {<<"p", "1">>, <<"p", "2">>}
Tokens == {<<"t", "1">>, <<"t", "2">>}

\* hashString (auth.go:70-73): the SHA-256 digest of s in hex, taken to be
\* free of collisions and never equal to a text a client types
hashString(s) == <<"sha256">> \o s

VerifyPassword(password, hash) == hashString(password) = hash

VerifyToken(token, hash) == hashString(token) = hash

\* GenerateAdminCredentials (auth.go:23-43)
GenerateAdminCredentials(password, token) ==
    [Username |-> "administrator", Password |-> password, Token |-> token,
     PasswordHash |-> hashString(password), TokenHash |-> hashString(token)]

\* the row setupAdminCredentials inserts (database.go:448-453)
CredentialsRow(creds) ==
    [exists |-> TRUE, username |-> creds.Username,
     password_hash |-> creds.PasswordHash, token_hash |-> creds.TokenHash]

\* the file SaveCredentialsToFile writes (auth.go:98-137)
CredentialsText(creds) ==
    [exists |-> TRUE, username |-> creds.Username,
     password |-> creds.Password, token |-> creds.Token]

\* SetSetting (database.go:229-238): insert, or update the value on conflict
SetSetting(table, key, value) ==
    [k \in DOMAIN table \cup {key} |-> IF k = key THEN value ELSE table[k]]

\* GetSetting (database.go:219-226)
GetSetting(table, key, defaultValue) ==
    IF key \in DOMAIN table THEN table[key] ELSE defaultValue

\* variant: a stored port is not looked at
getOrGeneratePortFresh(table, cliPort, envPort, random) ==
    LET port == IF cliPort # <<>> THEN cliPort
                ELSE IF envPort # <<>> THEN envPort
                ELSE <<Lit(PortBase + random)>>
    IN [port |-> port, settings |-> SetSetting(table, "server.http_port", port)]

\* getOrGeneratePort (database.go:478-506); random is what rand.Intn gives
getOrGeneratePort(table, cliPort, envPort, random) ==
    IF cliPort # <<>>
    THEN [port |-> cliPort,
          settings |-> SetSetting(table, "server.http_port", cliPort)]
    ELSE IF envPort # <<>>
    THEN [port |-> envPort,
          settings |-> SetSetting(table, "server.http_port", envPort)]
    ELSE LET portStr == GetSetting(table, "server.http_port", <<Lit(0)>>)
             generated == <<Lit(PortBase + random)>>
         IN IF Atoi(portStr) = 0
            THEN [port |-> generated,
                  settings |-> SetSetting(table, "server.http_port", generated)]
            ELSE [port |-> portStr, settings |-> table]

\* variant: the credentials are set up at every start
mainNewCredentials(cliPort, envPort, password, token, random) ==
    LET chosen == getOrGeneratePort(createTables(settings), cliPort, envPort,
                                    random)
        creds == GenerateAdminCredentials(password, token)
    IN /\ ~started
       /\ dbCities' = IF Len(dbCities) = 0
                      THEN loadCitiesFromJSON(dbCities, dataset)
                      ELSE dbCities
       /\ settings' = chosen.settings
       /\ adminCredentials' = CredentialsRow(creds)
       /\ credentialsFile' = CredentialsText(creds)
       /\ launch' = [cliPort |-> cliPort, envPort |-> envPort,
                     httpPort |-> chosen.port]
       /\ started' = TRUE
       /\ UNCHANGED <<dataset, citiesData, req, resp, auxVars>>

\* main (database.go:279-404): Initialize, the port, the admin credentials
\* when the table admin_credentials has no row, and the server is started
main(cliPort, envPort, password, token, random) ==
    LET chosen == getOrGeneratePort(createTables(settings), cliPort, envPort,
                                    random)
        creds == GenerateAdminCredentials(password, token)
    IN /\ ~started
       /\ dbCities' = IF Len(dbCities) = 0
                      THEN loadCitiesFromJSON(dbCities, dataset)
                      ELSE dbCities
       /\ settings' = chosen.settings
       /\ IF adminCredentials.exists
          THEN UNCHANGED <<adminCredentials, credentialsFile>>
          ELSE /\ adminCredentials' = CredentialsRow(creds)
               /\ credentialsFile' = CredentialsText(creds)
       /\ launch' = [cliPort |-> cliPort, envPort |-> envPort,
                     httpPort |-> chosen.port]
       /\ started' = TRUE
       /\ UNCHANGED <<dataset, citiesData, req, resp, auxVars>>

----------------------------------------------------------------------------
(* package server: /healthz and the admin routes (part_006:61-100) *)

\* the Authorization header of a request
NoAuthorization == [scheme |-> "none"]
Bearer(token) == [token |-> token, scheme |-> "Bearer"]
Basic(username, password) ==
    [password |-> password, username |-> username, scheme |-> "Basic"]

Unauthorized == [status |-> 401]

\* variant: a request is let through when the table has no credential row
requireAdminOpen(row, authorization) ==
    /\ authorization.scheme = "Bearer"
    /\ row.exists => VerifyToken(authorization.token, row.token_hash)

\* requireAdmin (part_006:147-173): TRUE when next.ServeHTTP is called
requireAdmin(row, authorization) ==
    /\ authorization.scheme = "Bearer"
    /\ row.exists
    /\ VerifyToken(authorization.token, row.token_hash)

\* requireAdminWeb (part_006:176-203): TRUE when next.ServeHTTP is called
requireAdminWeb(row, authorization) ==
    /\ authorization.scheme = "Basic"
    /\ row.exists
    /\ authorization.username = row.username
    /\ VerifyPassword(authorization.password, row.password_hash)

\* handleHealth (part_006:615-651)
handleHealth ==
    /\ started
    /\ req.op = "GET /healthz"
    /\ Answer("go handleHealth", [status |-> 200, city_count |-> Len(dbCities)])
    /\ UNCHANGED <<dataset, citiesData, dbCities, started, adminVars, auxVars>>

\* handleAdminSettings (part_006:905-939) behind requireAdmin
handleAdminSettings ==
    /\ started
    /\ req.op = "GET /api/v1/admin/settings"
    /\ Answer("go handleAdminSettings",
              IF requireAdmin(adminCredentials, req.authorization)
              THEN [status |-> 200, settings |-> settings]
              ELSE Unauthorized)
    /\ UNCHANGED <<dataset, citiesData, dbCities, started, adminVars, auxVars>>

\* UPDATE settings SET value = ? WHERE key = ? (part_006:953)
UpdateSetting(table, key, value) ==
    IF key \in DOMAIN table THEN [table EXCEPT ![key] = value] ELSE table

\* variant: the statement names the table cities and its column name
handleUpdateCities ==
    /\ started
    /\ req.op = "PUT /api/v1/admin/settings"
    /\ requireAdmin(adminCredentials, req.authorization)
    /\ req.body.ok
    /\ dbCities' = [i \in 1..Len(dbCities) |->
                       [dbCities[i] EXCEPT !.name = req.body.value]]
    /\ Answer("go handleUpdateSettings",
              [status |-> 200, key |-> req.body.key, value |-> req.body.value])
    /\ UNCHANGED <<dataset, citiesData, started, adminVars, auxVars>>

\* handleUpdateSettings (part_006:942-970) behind requireAdmin
handleUpdateSettings ==
    /\ started
    /\ req.op = "PUT /api/v1/admin/settings"
    /\ IF ~requireAdmin(adminCredentials, req.authorization)
       THEN /\ Answer("go handleUpdateSettings", Unauthorized)
            /\ UNCHANGED settings
       ELSE IF ~req.body.ok
       THEN /\ Answer("go handleUpdateSettings",
                      [status |-> 400, code |-> "INVALID_JSON"])
            /\ UNCHANGED settings
       ELSE /\ settings' = UpdateSetting(settings, req.body.key, req.body.value)
            /\ Answer("go handleUpdateSettings",
                      [status |-> 200, key |-> req.body.key,
                       value |-> req.body.value])
    /\ UNCHANGED <<dataset, citiesData, dbCities, started, adminCredentials,
                   credentialsFile, launch, auxVars>>

\* handleAdminStats (part_006:973-999) behind requireAdmin
handleAdminStats ==
    /\ started
    /\ req.op = "GET /api/v1/admin/stats"
    /\ Answer("go handleAdminStats",
              IF requireAdmin(adminCredentials, req.authorization)
              THEN [status |-> 200, cities |-> Len(dbCities),
                    settings |-> Cardinality(DOMAIN settings)]
              ELSE Unauthorized)
    /\ UNCHANGED <<dataset, citiesData, dbCities, started, adminVars, auxVars>>

\* handleAdminDashboard (part_006:864-882) behind requireAdminWeb
handleAdminDashboard ==
    /\ started
    /\ req.op = "GET /admin"
    /\ Answer("go handleAdminDashboard",
              IF requireAdminWeb(adminCredentials, req.authorization)
              THEN [status |-> 200, page |-> "Admin Dashboard"]
              ELSE Unauthorized)
    /\ UNCHANGED <<dataset, citiesData, dbCities, started, adminVars, auxVars>>

\* handleAdminSettingsPage (part_006:885-902) behind requireAdminWeb
handleAdminSettingsPage ==
    /\ started
    /\ req.op = "GET /admin/settings"
    /\ Answer("go handleAdminSettingsPage",
              IF requireAdminWeb(adminCredentials, req.authorization)
              THEN [status |-> 200, page |-> "Admin Settings"]
              ELSE Unauthorized)
    /\ UNCHANGED <<dataset, citiesData, dbCities, started, adminVars, auxVars>>

\* what a client may send to these routes: no header, a Bearer token (one
\* that may have been generated, the empty one, a password, the digest of a
\* token) or a user name with a password (or with a token)
AuthorizationValues ==
    {NoAuthorization}
    \cup {Bearer(t) : t \in Tokens \cup {<<>>, <<"p", "1">>, hashString(<<"t", "1">>)}}
    \cup {Basic(u, p) : u \in {"administrator", "root"},
                        p \in Passwords \cup {<<"t", "1">>}}

\* the body of PUT /api/v1/admin/settings: not JSON, or a key and a value
UpdateBodies ==
    {[ok |-> FALSE, key |-> "", value |-> <<>>]}
    \cup {[ok |-> TRUE, key |-> k, value |-> v] :
            k \in SettingKeys \cup {"no.such.key"},
            v \in {<<Lit(8080)>>, <<Junk>>}}

AdminRoutes ==
    {"GET /api/v1/admin/settings", "GET /api/v1/admin/stats", "GET /admin",
     "GET /admin/settings"}

AdminRequests ==
    {[op |-> "GET /healthz"]}
    \cup {[op |-> o, authorization |-> a] :
            o \in AdminRoutes, a \in AuthorizationValues}
    \cup {[op |-> "PUT /api/v1/admin/settings", authorization |-> a, body |-> b] :
            a \in AuthorizationValues, b \in UpdateBodies}

\* a client sends a request to /healthz or to an admin route
AdminRequest ==
    /\ req = Idle
    /\ req' \in AdminRequests
    /\ resp' = NoResponses
    /\ UNCHANGED <<dataset, citiesData, dbCities, started, adminVars, auxVars>>

MaxServed == 1    \* longest dataset of the server the admin is at work on

\* the server is started with --port 8080
mainOnPort ==
    \E password \in Passwords, token \in Tokens :
        main(<<Lit(8080)>>, <<>>, password, token, 0)

InitAdminSpec ==
    /\ dataset \in {d \in Datasets : Len(d.records) <= MaxServed}
    /\ citiesData = [loaded |-> FALSE, cities |-> <<>>]
    /\ dbCities = <<>>
    /\ started = FALSE
    /\ req = Idle
    /\ resp = NoResponses
    /\ InitAdmin
    /\ InitAux

\* every route of both servers, with the Go server started by main or, on a
\* database that has no credential row, by server.New alone
NextAdmin ==
    \/ mainOnPort
    \/ Initialize
    \/ ClientRequest
    \/ AdminRequest
    \/ ClientDone
    \/ GetCoordinates
    \/ PostCoordinates
    \/ handleCities
    \/ jsList
    \/ handleCitiesSearch
    \/ jsSearch
    \/ handleCitiesByCountry
    \/ jsCountry
    \/ jsCityById
    \/ handleHealth
    \/ handleAdminSettings
    \/ handleUpdateSettings
    \/ handleAdminStats
    \/ handleAdminDashboard
    \/ handleAdminSettingsPage

SpecAdmin == InitAdminSpec /\ [][NextAdmin]_vars

----------------------------------------------------------------------------
(* Startup, step by step: main runs database.Initialize to its end and     *)
(* only then builds the server and calls srv.Start (database.go:330-385).  *)
(* The port and the admin credentials are left out of this view.           *)

\* Initialize up to tx.Begin (database.go:44-47, 183-198): nothing to load
\* when the table has rows or the dataset does not decode
BeginLoad ==
    /\ ~started
    /\ loader.phase = "none"
    /\ loader' = IF Len(dbCities) = 0 /\ ~Unmarshal(dataset).err
                 THEN [phase |-> "loading", next |-> 1, tx |-> <<>>]
                 ELSE [phase |-> "done", next |-> 1, tx |-> <<>>]
    /\ UNCHANGED <<cityVars, adminVars, limiter, inflight, display>>

\* one turn of the loop over the decoded cities (database.go:206-213): the
\* row is written inside the transaction
InsertRecord ==
    /\ loader.phase = "loading"
    /\ loader.next <= Len(Unmarshal(dataset).cities)
    /\ loader' = [loader EXCEPT
                    !.tx = InsertCity(loader.tx,
                                      Unmarshal(dataset).cities[loader.next]),
                    !.next = loader.next + 1]
    /\ UNCHANGED <<cityVars, adminVars, limiter, inflight, display>>

\* tx.Commit (database.go:215): the rows of the transaction reach the table
CommitLoad ==
    /\ loader.phase = "loading"
    /\ loader.next > Len(Unmarshal(dataset).cities)
    /\ dbCities' = loader.tx
    /\ loader' = [loader EXCEPT !.phase = "done"]
    /\ UNCHANGED <<dataset, citiesData, started, req, resp, adminVars,
                   limiter, inflight, display>>

\* variant: the server listens as soon as the process is up
ListenAtOnce ==
    /\ ~started
    /\ started' = TRUE
    /\ UNCHANGED <<dataset, citiesData, dbCities, req, resp, adminVars,
                   auxVars>>

\* server.New and srv.Start (database.go:370-385), reached when Initialize
\* has returned
Listen ==
    /\ ~started
    /\ loader.phase = "done"
    /\ started' = TRUE
    /\ UNCHANGED <<dataset, citiesData, dbCities, req, resp, adminVars,
                   auxVars>>

InitStartup ==
    /\ dataset \in {d \in Datasets : Len(d.records) <= MaxDeployed}
    /\ citiesData = [loaded |-> FALSE, cities |-> <<>>]
    /\ dbCities = <<>>
    /\ started = FALSE
    /\ req = Idle
    /\ resp = NoResponses
    /\ InitAdmin
    /\ InitAux

NextStartup ==
    \/ BeginLoad
    \/ InsertRecord
    \/ CommitLoad
    \/ Listen
    \/ ClientRequest
    \/ ClientDone
    \/ GetCoordinates
    \/ PostCoordinates
    \/ handleCities
    \/ jsList
    \/ handleCitiesSearch
    \/ jsSearch
    \/ handleCitiesByCountry
    \/ jsCountry
    \/ jsCityById

SpecStartup == InitStartup /\ [][NextStartup]_vars

----------------------------------------------------------------------------
(* Go queries in flight: net/http runs every request in a goroutine of its *)
(* own, and a handler collects the rows of its query one by one            *)
(* (part_006:721-728, 778-785, 817-824).                                   *)

MaxWorkers == 2    \* goroutines serving requests at the same time

Workers == 1..MaxWorkers

IdleWorker == [phase |-> "idle"]

\* the queries the clients of this view send
ConcurrentRequests ==
    {[op |-> "handleCities", limit |-> l, offset |-> Undefined] :
        l \in {Undefined, NumStr(1)}}
    \cup {[op |-> "search", limit |-> Undefined, q |-> q] :
            q \in {Str(<<"a">>), EmptyStr}}
    \cup {[op |-> "country", limit |-> Undefined, code |-> c] :
            c \in {<<"g", "b">>, <<"u", "s">>}}

\* what the handler of a request answers when it runs from start to end
HandlerResponse(table, r) ==
    CASE r.op = "handleCities" -> CitiesResponse(table, r.limit, r.offset)
      [] r.op = "search" -> CitiesSearchResponse(table, r.q, r.limit)
      [] r.op = "country" -> CitiesByCountryResponse(table, r.code, r.limit)

\* a goroutine takes a request
AcceptQuery ==
    /\ started
    /\ \E w \in Workers, r \in ConcurrentRequests :
        /\ inflight[w].phase = "idle"
        /\ inflight' = [inflight EXCEPT
                           ![w] = [phase |-> "accepted", request |-> r]]
    /\ UNCHANGED <<cityVars, adminVars, limiter, loader, display>>

\* the handler checks its parameters and runs s.db.Query; it answers at
\* once when the parameters are refused, and has an empty slice otherwise
RunQuery ==
    \E w \in Workers :
        /\ inflight[w].phase = "accepted"
        /\ LET full == HandlerResponse(dbCities, inflight[w].request)
           IN inflight' = [inflight EXCEPT ![w] =
                 IF full.status # 200
                 THEN [phase |-> "responded",
                       request |-> inflight[w].request, response |-> full]
                 ELSE [phase |-> "scanning",
                       request |-> inflight[w].request,
                       rows |-> full.cities, pos |-> 1, cities |-> <<>>]]
        /\ UNCHANGED <<cityVars, adminVars, limiter, loader, display>>

\* variant: the handlers append to one slice that they share
ScanRowShared ==
    \E w \in Workers :
        /\ inflight[w].phase = "scanning"
        /\ inflight[w].pos <= Len(inflight[w].rows)
        /\ inflight' = [v \in Workers |->
              IF inflight[v].phase # "scanning" THEN inflight[v]
              ELSE [inflight[v] EXCEPT
                      !.cities = Append(inflight[v].cities,
                                        inflight[w].rows[inflight[w].pos]),
                      !.pos = IF v = w THEN inflight[v].pos + 1
                              ELSE inflight[v].pos]]
        /\ UNCHANGED <<cityVars, adminVars, limiter, loader, display>>

\* rows.Next, rows.Scan and cities = append(cities, c) on the slice that is
\* a local variable of the handler
ScanRow ==
    \E w \in Workers :
        /\ inflight[w].phase = "scanning"
        /\ inflight[w].pos <= Len(inflight[w].rows)
        /\ inflight' = [inflight EXCEPT ![w] =
              [inflight[w] EXCEPT
                  !.cities = Append(inflight[w].cities,
                                    inflight[w].rows[inflight[w].pos]),
                  !.pos = inflight[w].pos + 1]]
        /\ UNCHANGED <<cityVars, adminVars, limiter, loader, display>>

\* rows.Next gives false: the response is built from the slice
Respond ==
    \E w \in Workers :
        /\ inflight[w].phase = "scanning"
        /\ inflight[w].pos > Len(inflight[w].rows)
        /\ LET full == HandlerResponse(dbCities, inflight[w].request)
               collected == inflight[w].cities
           IN inflight' = [inflight EXCEPT ![w] =
                 [phase |-> "responded", request |-> inflight[w].request,
                  response |->
                     IF "count" \in DOMAIN full
                     THEN [full EXCEPT !.cities = collected,
                                       !.count = Len(collected)]
                     ELSE [full EXCEPT !.cities = collected]]]
        /\ UNCHANGED <<cityVars, adminVars, limiter, loader, display>>

\* the client has its answer and the goroutine ends
Finish ==
    \E w \in Workers :
        /\ inflight[w].phase = "responded"
        /\ inflight' = [inflight EXCEPT ![w] = IdleWorker]
        /\ UNCHANGED <<cityVars, adminVars, limiter, loader, display>>

InitConcurrent ==
    /\ dataset \in {d \in Datasets : Len(d.records) <= MaxDeployed}
    /\ citiesData = [loaded |-> FALSE, cities |-> <<>>]
    /\ dbCities = <<>>
    /\ started = FALSE
    /\ req = Idle
    /\ resp = NoResponses
    /\ InitAdmin
    /\ limiter = 0
    /\ loader = [phase |-> "none", next |-> 1, tx |-> <<>>]
    /\ inflight = [w \in Workers |-> IdleWorker]
    /\ display = [asked |-> FALSE]

NextConcurrent ==
    \/ Initialize
    \/ AcceptQuery
    \/ RunQuery
    \/ ScanRow
    \/ Respond
    \/ Finish

SpecConcurrent == InitConcurrent /\ [][NextConcurrent]_vars

----------------------------------------------------------------------------
(* Starts of the Go process on one database file, with and without a port  *)
(* on the command line and in the environment                              *)

\* the --port flag ("" when it is not given) and $PORT ("" when it is unset)
CliPorts == {<<>>, <<Lit(8080)>>, <<Lit(0)>>}
EnvPorts == {<<>>, <<Lit(3000)>>}

\* a start of the process; the random strings and the random number are
\* drawn only on the paths of main that generate credentials or a port
Start ==
    \E cliPort \in CliPorts, envPort \in EnvPorts :
        \E password \in IF adminCredentials.exists THEN {<<>>} ELSE Passwords,
           token \in IF adminCredentials.exists THEN {<<>>} ELSE Tokens,
           random \in IF /\ cliPort = <<>>
                         /\ envPort = <<>>
                         /\ Atoi(GetSetting(createTables(settings),
                                            "server.http_port", <<Lit(0)>>)) = 0
                      THEN 0..(PortCount - 1)
                      ELSE {0} :
            main(cliPort, envPort, password, token, random)

InitBoot ==
    /\ dataset \in {d \in Datasets : Len(d.records) <= MaxServed}
    /\ citiesData = [loaded |-> FALSE, cities |-> <<>>]
    /\ dbCities = <<>>
    /\ started = FALSE
    /\ req = Idle
    /\ resp = NoResponses
    /\ InitAdmin
    /\ InitAux

NextBoot ==
    \/ Start
    \/ Exit

SpecBoot == InitBoot /\ [][NextBoot]_vars

----------------------------------------------------------------------------
(* package server: the limiter in front of every route (part_006:56-58)    *)

RateLimit == 100    \* part_006:58

TooManyRequests == [status |-> 429]

\* the requests one client IP sends to two public routes
PublicRequests ==
    {[op |-> "GET /healthz"],
     [op |-> "handleCities", limit |-> Undefined, offset |-> Undefined]}

PublicRequest ==
    /\ req = Idle
    /\ req' \in PublicRequests
    /\ resp' = NoResponses
    /\ UNCHANGED <<dataset, citiesData, dbCities, started, adminVars, auxVars>>

\* httprate.LimitByIP(100, 1*time.Minute) and, behind it, the handler: a
\* request is counted and passed on while fewer than 100 requests of its IP
\* are counted in the window, and is answered 429 otherwise
LimitByIP ==
    /\ started
    /\ req.op \in {"GET /healthz", "handleCities"}
    /\ \A r \in Routes : resp[r] = NoResp
    /\ LET route == IF req.op = "handleCities"
                    THEN "go handleCities" ELSE "go handleHealth"
       IN IF limiter >= RateLimit
          THEN /\ Answer(route, TooManyRequests)
               /\ UNCHANGED limiter
          ELSE /\ limiter' = limiter + 1
               /\ Answer(route,
                         IF req.op = "handleCities"
                         THEN CitiesResponse(dbCities, req.limit, req.offset)
                         ELSE [status |-> 200, city_count |-> Len(dbCities)])
    /\ UNCHANGED <<dataset, citiesData, dbCities, started, adminVars, loader,
                   inflight, display>>

\* the window of one minute has passed
WindowElapsed ==
    /\ limiter > 0
    /\ limiter' = 0
    /\ UNCHANGED <<cityVars, adminVars, loader, inflight, display>>

InitRate ==
    /\ dataset \in {d \in Datasets : Len(d.records) <= MaxServed}
    /\ citiesData = [loaded |-> FALSE, cities |-> <<>>]
    /\ dbCities = <<>>
    /\ started = FALSE
    /\ req = Idle
    /\ resp = NoResponses
    /\ InitAdmin
    /\ InitAux

NextRate ==
    \/ Initialize
    \/ PublicRequest
    \/ LimitByIP
    \/ WindowElapsed
    \/ ClientDone

SpecRate == InitRate /\ [][NextRate]_vars

----------------------------------------------------------------------------
(* package utils: GetDisplayAddress and FormatURL (network.go).  An        *)
(* address is a sequence of pieces: "0.0.0.0:80" is <<"0.0.0.0", ":", "80">>. *)

HasPrefix(s, prefix) ==
    Len(s) >= Len(prefix) /\ SubSeq(s, 1, Len(prefix)) = prefix

\* strings.Contains(host, ":")
ContainsColon(s) == \E i \in 1..Len(s) : s[i] \in {":", "::", "::1"}

\* strings.ToLower(strings.TrimSpace(fqdn))
ToLowerTrimSpace(s) ==
    IF s = <<"LocalHost">> THEN <<"localhost">> ELSE s

\* GetDisplayAddress (network.go:12-58); host is what the machine gives:
\* os.Hostname (with its error), getOutboundIP and getFirstNonLoopbackIP
GetDisplayAddress(listenAddr, host) ==
    LET fqdn == ToLowerTrimSpace(host.hostname)
    IN IF /\ listenAddr # <<>>
          /\ listenAddr # <<"0.0.0.0">>
          /\ listenAddr # <<"127.0.0.1">>
          /\ listenAddr # <<"localhost">>
          /\ listenAddr # <<"::1">>
          /\ ~HasPrefix(listenAddr, <<"0.0.0.0", ":">>)
          /\ ~HasPrefix(listenAddr, <<"127.0.0.1", ":">>)
          /\ ~HasPrefix(listenAddr, <<"localhost", ":">>)
       THEN listenAddr
       ELSE IF /\ ~host.hostnameErr
               /\ host.hostname # <<>>
               /\ fqdn # <<"localhost">>
               /\ fqdn # <<"localhost.localdomain">>
       THEN fqdn
       ELSE IF /\ host.outboundIP # <<>>
               /\ host.outboundIP # <<"127.0.0.1">>
               /\ host.outboundIP # <<"::1">>
       THEN host.outboundIP
       ELSE IF host.interfaceIP # <<>>
       THEN host.interfaceIP
       ELSE IF ~host.hostnameErr /\ host.hostname # <<>>
       THEN host.hostname
       ELSE <<"localhost">>

\* FormatURL (network.go:133-148) with the path ""
FormatURL(listenAddr, host, port) ==
    LET address == GetDisplayAddress(listenAddr, host)
        bracketed == IF ContainsColon(address) /\ ~HasPrefix(address, <<"[">>)
                     THEN <<"[">> \o address \o <<"]">>
                     ELSE address
    IN <<"http://">> \o bracketed \o <<":", port, "/">>

\* the --address flag: its default "::" (database.go:292) and other values
ListenAddresses ==
    {<<>>, <<"::">>, <<"0.0.0.0">>, <<"127.0.0.1">>, <<"localhost">>,
     <<"::1">>, <<"192.168.1.5">>, <<"example.com">>,
     <<"0.0.0.0", ":", "80">>}

\* what the machine may give
Hosts ==
    [hostnameErr : BOOLEAN,
     hostname : {<<>>, <<"localhost">>, <<"LocalHost">>,
                 <<"localhost.localdomain">>, <<"web1">>,
                 <<"web1.example.com">>},
     outboundIP : {<<>>, <<"127.0.0.1">>, <<"10.0.0.5">>},
     interfaceIP : {<<>>, <<"10.0.0.6">>}]

\* main prints the URL of the server (database.go:377)
PrintURL ==
    /\ ~display.asked
    /\ display' = [display EXCEPT
                      !.asked = TRUE,
                      !.address = GetDisplayAddress(display.listenAddr,
                                                    display.host),
                      !.url = FormatURL(display.listenAddr, display.host,
                                        "8080")]
    /\ UNCHANGED <<cityVars, adminVars, limiter, loader, inflight>>

InitNet ==
    /\ dataset \in {d \in Datasets : Len(d.records) <= MaxServed}
    /\ citiesData = [loaded |-> FALSE, cities |-> <<>>]
    /\ dbCities = <<>>
    /\ started = FALSE
    /\ req = Idle
    /\ resp = NoResponses
    /\ InitAdmin
    /\ limiter = 0
    /\ loader = [phase |-> "none", next |-> 1, tx |-> <<>>]
    /\ inflight = <<>>
    /\ display \in [asked : {FALSE}, listenAddr : ListenAddresses,
                    host : Hosts, address : {<<>>}, url : {<<>>}]

NextNet == PrintURL

SpecNet == InitNet /\ [][NextNet]_vars

----------------------------------------------------------------------------
(* Listing a corpus that is longer than the largest page *)

\* a dataset of one city more than the largest page holds
LongDataset ==
    [ok |-> TRUE,
     records |-> [i \in 1..(MaxListLimit + 1) |->
                     City(i, <<"a">>, GB, Deg(0), Deg(0))],
     mistyped |-> {}]

\* the cities table that the load of LongDataset leaves (database.go:206-213:
\* one row for each of its cities, whose ids differ and ascend)
LongTable == [i \in 1..Len(LongDataset.records) |-> Row(LongDataset.records[i])]

\* limits around the largest page, and offsets that are multiples of them
LongLimits ==
    {NumStr(n) : n \in {MaxListLimit \div 2, MaxListLimit,
                        MaxListLimit + 1, 2 * MaxListLimit}}
LongOffsets ==
    {NumStr(n) : n \in {MaxListLimit \div 2, MaxListLimit,
                        MaxListLimit + 1, 2 * MaxListLimit}}

PageRequests ==
    {[op |-> "handleCities", limit |-> l, offset |-> o] :
        l \in LimitValues \cup LongLimits, o \in OffsetValues \cup LongOffsets}
    \cup {[op |-> "js list", limit |-> l, page |-> p] :
            p \in PageValues, l \in LimitValues \cup LongLimits}

\* a client asks for a page
PageRequest ==
    /\ req = Idle
    /\ req' \in PageRequests
    /\ resp' = NoResponses
    /\ UNCHANGED <<dataset, citiesData, dbCities, started, adminVars, auxVars>>

\* a first start on a short dataset, or a start on the database file that
\* an earlier start has loaded from the long dataset
InitPages ==
    /\ \/ dataset \in Datasets /\ dbCities = <<>>
       \/ dataset = LongDataset /\ dbCities = LongTable
    /\ citiesData = [loaded |-> FALSE, cities |-> <<>>]
    /\ started = FALSE
    /\ req = Idle
    /\ resp = NoResponses
    /\ InitAdmin
    /\ InitAux

NextPages ==
    \/ Initialize
    \/ PageRequest
    \/ ClientDone
    \/ handleCities
    \/ jsList

SpecPages == InitPages /\ [][NextPages]_vars

----------------------------------------------------------------------------
(* Nearest-city lookup: what the claims speak of *)

CoordRoutes == {"js GET /coordinates", "js POST /coordinates"}

Answered(r) == resp[r] # NoResp

\* the corpus the Express router serves: the parsed file, or nothing when
\* the file could not be read or parsed
JsCorpus == IF dataset.ok THEN dataset.records ELSE <<>>

IsNumber(raw) == raw.t = "string" /\ raw.s # <<>> /\ Head(raw.s).num
NumberOf(raw) == Head(raw.s).v

\* longitude and latitude are present, numeric and within range
ValidPoint ==
    /\ req.op = "coordinates"
    /\ IsNumber(req.longitude) /\ IsNumber(req.latitude)
    /\ NumberOf(req.longitude) \in Deg(-180)..Deg(180)
    /\ NumberOf(req.latitude) \in Deg(-90)..Deg(90)

\* the distance of a city from the point asked for
Dist(city) ==
    calculateDistance(Num(NumberOf(req.latitude)), Num(NumberOf(req.longitude)),
                      city.coord.lat, city.coord.lon)

\* C1: for a non-empty corpus and a valid point, the lookup answers with a
\* city at the minimum distance over the whole corpus, and among several at
\* that distance with the first one in traversal order.
C1_NearestIsFirstMinimum ==
    \A r \in CoordRoutes :
        (ValidPoint /\ Answered(r) /\ JsCorpus # <<>>) =>
            /\ resp[r].status = 200
            /\ \E i \in 1..Len(JsCorpus) :
                  /\ resp[r].city = JsCorpus[i]
                  /\ \A j \in 1..Len(JsCorpus) :
                        ~Lt(Dist(JsCorpus[j]), Dist(JsCorpus[i]))
                  /\ \A j \in 1..(i - 1) :
                        Dist(JsCorpus[j]) # Dist(JsCorpus[i])

FirstAt(lat, lon) ==
    JsCorpus[CHOOSE i \in 1..Len(JsCorpus) :
                /\ JsCorpus[i].coord.lat = lat /\ JsCorpus[i].coord.lon = lon
                /\ \A j \in 1..(i - 1) :
                      ~(JsCorpus[j].coord.lat = lat /\ JsCorpus[j].coord.lon = lon)]

\* C3: asking for exactly the coordinates of a stored city gives distance
\* 0.00 and that city, or the first city in traversal order that has the
\* same coordinate pair.
C3_Reflexive ==
    \A r \in CoordRoutes : \A i \in 1..Len(JsCorpus) :
        (/\ req.op = "coordinates" /\ Answered(r)
         /\ IsNumber(req.latitude) /\ IsNumber(req.longitude)
         /\ NumberOf(req.latitude) = JsCorpus[i].coord.lat
         /\ NumberOf(req.longitude) = JsCorpus[i].coord.lon) =>
            /\ resp[r].status = 200
            /\ resp[r].distance = Num(0)
            /\ resp[r].city = FirstAt(JsCorpus[i].coord.lat, JsCorpus[i].coord.lon)

\* two different cities share the coordinates asked for; the first is returned
C3_Witness ==
    \E r \in CoordRoutes : \E i, j \in 1..Len(JsCorpus) :
        /\ i < j /\ JsCorpus[i] # JsCorpus[j]
        /\ JsCorpus[i].coord = JsCorpus[j].coord
        /\ req.op = "coordinates" /\ Answered(r)
        /\ IsNumber(req.latitude) /\ IsNumber(req.longitude)
        /\ NumberOf(req.latitude) = JsCorpus[i].coord.lat
        /\ NumberOf(req.longitude) = JsCorpus[i].coord.lon
        /\ resp[r].status = 200 /\ resp[r].distance = Num(0)
        /\ resp[r].city = JsCorpus[i]
        /\ \A k \in 1..(i - 1) : JsCorpus[k].coord # JsCorpus[i].coord

\* C4: with zero cities in the store (a failed load included) a lookup with
\* valid coordinates fails with EmptyCorpus (404 "No cities found") and
\* returns no city.
C4_EmptyCorpus ==
    \A r \in CoordRoutes :
        (ValidPoint /\ Answered(r) /\ JsCorpus = <<>>) =>
            /\ resp[r].status = 404
            /\ resp[r].error = ErrNoCities
            /\ "city" \notin DOMAIN resp[r]

\* the file could not be parsed and a valid lookup was answered with 404
C4_Witness ==
    /\ ~dataset.ok
    /\ ValidPoint
    /\ citiesData = [loaded |-> TRUE, cities |-> <<>>]
    /\ resp["js GET /coordinates"].status = 404

\* what a caller learns from a response: the error kind, or city and distance
Outcome(response) ==
    IF response.status = 200
    THEN [status |-> 200, city |-> response.city, distance |-> response.distance]
    ELSE [status |-> response.status]

\* C5: for the same (longitude, latitude) and corpus the query-parameter
\* entry point and the request-body entry point give the same outcome.
C5_GetPostAgree ==
    (req.op = "coordinates" /\ Answered("js GET /coordinates")
     /\ Answered("js POST /coordinates")) =>
        Outcome(resp["js GET /coordinates"]) = Outcome(resp["js POST /coordinates"])

\* both entry points answered a point whose latitude and longitude differ
\* with the same city
C5_Witness ==
    /\ ValidPoint
    /\ NumberOf(req.latitude) # NumberOf(req.longitude)
    /\ Len(JsCorpus) >= 2
    /\ resp["js GET /coordinates"].status = 200
    /\ resp["js POST /coordinates"].status = 200
    /\ resp["js GET /coordinates"].city = resp["js POST /coordinates"].city

\* C6: minimum tracking compares unrounded distances; only the final
\* minimum is rounded to 2 decimals, so cities whose distances differ below
\* the rounding precision are still ordered by their true distance.
C6_UnroundedComparison ==
    \A r \in CoordRoutes :
        (req.op = "coordinates" /\ Answered(r) /\ resp[r].status = 200) =>
            \E i \in 1..Len(JsCorpus) :
                /\ resp[r].city = JsCorpus[i]
                /\ resp[r].distance = Round2(Dist(JsCorpus[i]))
                /\ \A j \in 1..Len(JsCorpus) :
                      ~Lt(Dist(JsCorpus[j]), Dist(JsCorpus[i]))

\* an earlier city is farther by less than the rounding precision, and the
\* later, nearer city is the one returned
C6_Witness ==
    \E r \in CoordRoutes : \E i, j \in 1..Len(JsCorpus) :
        /\ req.op = "coordinates" /\ Answered(r) /\ resp[r].status = 200
        /\ i < j
        /\ Lt(Dist(JsCorpus[j]), Dist(JsCorpus[i]))
        /\ Round2(Dist(JsCorpus[j])) = Round2(Dist(JsCorpus[i]))
        /\ resp[r].city = JsCorpus[j]
        /\ resp[r].distance = Round2(Dist(JsCorpus[j]))

----------------------------------------------------------------------------
(* Paginated listing: what the claims speak of *)

\* the parameter is a whole number, e.g. "12" and not "12abc"
IsWholeNumber(raw) == raw.t = "string" /\ Len(raw.s) = 1 /\ raw.s[1].num
WholeNumberOf(raw) == raw.s[1].v

\* a limit in 1..1000, or none (the default applies)
ValidLimit(raw) ==
    \/ raw = Undefined
    \/ IsWholeNumber(raw) /\ WholeNumberOf(raw) \in 1..MaxListLimit
\* an offset >= 0, or none
ValidOffset(raw) ==
    \/ raw = Undefined
    \/ IsWholeNumber(raw) /\ WholeNumberOf(raw) >= 0

LimitAsked(raw) == IF raw = Undefined THEN DefaultListLimit ELSE WholeNumberOf(raw)
OffsetAsked(raw) == IF raw = Undefined THEN 0 ELSE WholeNumberOf(raw)

\* C7: for valid (offset, limit) the listing returns exactly
\* min(limit, count - offset) cities, none (and no error) when
\* offset >= count, and total is the count of the whole corpus.
C7_PageSize ==
    (/\ req.op = "handleCities" /\ Answered("go handleCities")
     /\ ValidLimit(req.limit) /\ ValidOffset(req.offset)) =>
        LET count == Len(dbCities)
            limit == LimitAsked(req.limit)
            offset == OffsetAsked(req.offset)
            page == resp["go handleCities"]
        IN /\ page.status = 200
           /\ Len(page.cities) =
                 IF offset >= count THEN 0 ELSE Min(limit, count - offset)
           /\ page.total = count

\* a last, partial page: fewer than limit cities are left after the offset
C7_Witness ==
    /\ req.op = "handleCities"
    /\ IsWholeNumber(req.limit) /\ IsWholeNumber(req.offset)
    /\ WholeNumberOf(req.offset) > 0
    /\ WholeNumberOf(req.offset) < Len(dbCities)
    /\ WholeNumberOf(req.limit) > Len(dbCities) - WholeNumberOf(req.offset)
    /\ resp["go handleCities"].status = 200
    /\ Len(resp["go handleCities"].cities) = Len(dbCities) - WholeNumberOf(req.offset)
    /\ resp["go handleCities"].total = Len(dbCities)

\* C8: whatever the limit parameter is (absent, non-numeric, zero, negative,
\* above 1000) the limit used is within 1..1000: above 1000 it is 1000,
\* <= 0 or absent it is the default 100; no response holds more than 1000
\* cities.
C8_LimitWithinBounds ==
    /\ (req.op = "handleCities" /\ Answered("go handleCities")) =>
          LET page == resp["go handleCities"]
          IN /\ page.limit \in 1..MaxListLimit
             /\ Len(page.cities) <= page.limit
             /\ (~IsWholeNumber(req.limit) \/ WholeNumberOf(req.limit) <= 0)
                    => page.limit = DefaultListLimit
             /\ (IsWholeNumber(req.limit) /\ WholeNumberOf(req.limit) > MaxListLimit)
                    => page.limit = MaxListLimit
    /\ (req.op = "js list" /\ Answered("js GET /")) =>
          LET page == resp["js GET /"]
          IN /\ page.pagination.limit \in 1..MaxListLimit
             /\ Len(page.cities) <= page.pagination.limit
             /\ (~IsNumber(req.limit) \/ NumberOf(req.limit) <= 0)
                    => page.pagination.limit = DefaultListLimit
             /\ (IsNumber(req.limit) /\ NumberOf(req.limit) > MaxListLimit)
                    => page.pagination.limit = MaxListLimit

\* C9: a negative offset is clamped to 0: the response is the one for
\* offset 0 with the same limit.
C9_NegativeOffsetAsZero ==
    (/\ req.op = "handleCities" /\ Answered("go handleCities")
     /\ IsWholeNumber(req.offset) /\ WholeNumberOf(req.offset) < 0) =>
        resp["go handleCities"] = CitiesResponse(dbCities, req.limit, NumStr(0))

----------------------------------------------------------------------------
(* Name search: what the claims speak of *)

\* the first n elements of s
FirstN(s, n) == SubSeq(s, 1, Min(Len(s), n))

\* a limit >= 1, or none
ValidSearchLimit(raw) ==
    raw = Undefined \/ (IsWholeNumber(raw) /\ WholeNumberOf(raw) >= 1)

\* q occurs in name as a literal substring, letters compared without case
ContainsLiteral(name, q) ==
    \E i \in 0..(Len(name) - Len(q)) :
        \A k \in 1..Len(q) : toLower(name[i + k]) = toLower(q[k])

\* C10: for a query of length >= 2 the search returns exactly the first
\* limit cities, in store order, whose name contains q as a literal
\* substring without regard to case, and no other city.
C10_LiteralSubstring ==
    /\ (/\ req.op = "search" /\ Answered("go handleCitiesSearch")
        /\ req.q.t = "string" /\ Len(req.q.s) >= 2
        /\ ValidSearchLimit(req.limit)) =>
          LET found == resp["go handleCitiesSearch"]
              limit == IF req.limit = Undefined THEN DefaultSearchLimit
                       ELSE WholeNumberOf(req.limit)
          IN /\ found.status = 200
             /\ found.cities =
                   FirstN(SelectSeq(dbCities,
                              LAMBDA row : ContainsLiteral(row.name, req.q.s)),
                          limit)
    /\ (/\ req.op = "search" /\ Answered("js GET /search")
        /\ req.q.t = "string" /\ Len(req.q.s) >= 2
        /\ ValidSearchLimit(req.limit)) =>
          LET found == resp["js GET /search"]
              limit == IF req.limit = Undefined THEN JsDefaultSearchLimit
                       ELSE WholeNumberOf(req.limit)
          IN /\ found.status = 200
             /\ found.cities =
                   FirstN(SelectSeq(JsCorpus,
                              LAMBDA city : ContainsLiteral(city.name, req.q.s)),
                          limit)

\* the cities a search response holds, none when it is an error
Found(response) == IF response.status = 200 THEN response.cities ELSE <<>>

\* the query spelled in lower case and in upper case
Lowered(q) == IF q.t = "string" THEN Str(toLowerCase(q.s)) ELSE q
Uppered(q) == IF q.t = "string" THEN Str(toUpperCase(q.s)) ELSE q

\* C11: name search does not depend on the casing of the query: q, its
\* lower-cased form and its upper-cased form give the same cities, on the
\* Go server and on the Express router.
C11_CasingInvariant ==
    /\ (req.op = "search" /\ Answered("go handleCitiesSearch")) =>
          LET got == resp["go handleCitiesSearch"]
              lower == CitiesSearchResponse(dbCities, Lowered(req.q), req.limit)
              upper == CitiesSearchResponse(dbCities, Uppered(req.q), req.limit)
          IN /\ got.status = lower.status /\ Found(got) = Found(lower)
             /\ got.status = upper.status /\ Found(got) = Found(upper)
    /\ (req.op = "search" /\ Answered("js GET /search")) =>
          LET got == resp["js GET /search"]
              lower == jsSearchResponse(JsCorpus, Lowered(req.q), req.limit)
              upper == jsSearchResponse(JsCorpus, Uppered(req.q), req.limit)
          IN /\ got.status = lower.status /\ Found(got) = Found(lower)
             /\ got.status = upper.status /\ Found(got) = Found(upper)

SearchRoutes == {"go handleCitiesSearch", "js GET /search"}

\* C12: a name search whose q is missing, empty or shorter than 2
\* characters fails with a 4xx error and returns no city, on every route
\* that serves name search.
C12_ShortQueryRejected ==
    \A r \in SearchRoutes :
        (/\ req.op = "search" /\ Answered(r)
         /\ (req.q = Undefined \/ Len(req.q.s) < 2)) =>
            /\ resp[r].status \in 400..499
            /\ Found(resp[r]) = <<>>

\* C13: name search uses the limit 50 when none is given and never uses a
\* limit above 100: a requested limit above 100 becomes 100, so at most 100
\* cities are returned.
C13_SearchLimitCapped ==
    \A r \in SearchRoutes :
        (req.op = "search" /\ Answered(r) /\ resp[r].status = 200) =>
            /\ req.limit = Undefined => resp[r].limit = 50
            /\ resp[r].limit <= 100
            /\ (IsWholeNumber(req.limit) /\ WholeNumberOf(req.limit) > 100)
                   => resp[r].limit = 100
            /\ Len(resp[r].cities) <= 100

----------------------------------------------------------------------------
(* Country filter: what the claims speak of *)

CountryRoutes == {"go handleCitiesByCountry", "js GET /country/:code"}

IsLetter(c) ==
    \E i \in 1..Len(Letters) : Letters[i] = c \/ Capitals[i] = c

\* the code, once uppercased, is exactly 2 letters
ValidCode(code) ==
    LET upper == toUpperCase(code)
    IN Len(upper) = 2 /\ \A i \in 1..2 : IsLetter(upper[i])

\* C14: a country code that, once uppercased, is not exactly 2 letters
\* (wrong length, a digit or another non-letter) is refused with a 4xx
\* error and no city, on every route that serves the country filter.
C14_InvalidCodeRejected ==
    \A r \in CountryRoutes :
        (req.op = "country" /\ Answered(r) /\ ~ValidCode(req.code)) =>
            /\ resp[r].status \in 400..499
            /\ Found(resp[r]) = <<>>

\* the store a route reads
StoreOf(r) == IF r = "go handleCitiesByCountry" THEN dbCities ELSE JsCorpus

\* the cities of the store with that country, in store order
OfCountry(store, country) == SelectSeq(store, LAMBDA c : c.country = country)

\* a limit >= 1, or none
ValidCountryLimit(raw) ==
    raw = Undefined \/ (IsWholeNumber(raw) /\ WholeNumberOf(raw) >= 1)

\* C15: for a valid country code the filter answers with success and with
\* cities whose country equals the uppercased code only, in store order
\* (the first limit of them), whatever the casing of the code; when no
\* stored city has the code the answer is the empty list, not an error.
C15_CountryFilter ==
    \A r \in CountryRoutes :
        (req.op = "country" /\ Answered(r) /\ ValidCode(req.code)) =>
            LET all == OfCountry(StoreOf(r), toUpperCase(req.code))
                got == resp[r]
            IN /\ got.status = 200
               /\ Len(got.cities) <= Len(all)
               /\ got.cities = SubSeq(all, 1, Len(got.cities))
               /\ ValidCountryLimit(req.limit) =>
                     Len(got.cities) =
                        IF req.limit = Undefined THEN Len(all)
                        ELSE Min(WholeNumberOf(req.limit), Len(all))

\* a code sent in lower case finds the cities stored under its upper case
C15_Witness ==
    /\ req.op = "country"
    /\ req.code = <<"g", "b">>
    /\ resp["go handleCitiesByCountry"].status = 200
    /\ Len(resp["go handleCitiesByCountry"].cities) = 2
    /\ resp["js GET /country/:code"].status = 200
    /\ Len(resp["js GET /country/:code"].cities) > 0
    /\ \E i \in 1..Len(dbCities) : dbCities[i].country # GB

\* C16: the country filter uses the limit 100 when none is given and never
\* uses a limit above 1000: a requested limit above 1000 becomes 1000, so
\* at most 1000 cities are returned.
C16_CountryLimitCapped ==
    \A r \in CountryRoutes :
        (req.op = "country" /\ Answered(r) /\ resp[r].status = 200) =>
            /\ req.limit = Undefined => resp[r].limit = 100
            /\ resp[r].limit <= 1000
            /\ (IsWholeNumber(req.limit) /\ WholeNumberOf(req.limit) > 1000)
                   => resp[r].limit = 1000
            /\ Len(resp[r].cities) <= 1000

----------------------------------------------------------------------------
(* Lookup by id: what the claims speak of *)

\* C17: for every city c of the loaded corpus, lookup by c.id returns c
\* with its stored fields; for an id no stored city has, the lookup
\* answers 404 and no city.
C17_FindById ==
    (req.op = "id" /\ Answered("js GET /:id") /\ IsWholeNumber(req.id)) =>
        LET id == WholeNumberOf(req.id)
            got == resp["js GET /:id"]
        IN /\ \A i \in 1..Len(JsCorpus) :
                 JsCorpus[i].id = id =>
                     got.status = 200 /\ got.city = JsCorpus[i]
           /\ (\A i \in 1..Len(JsCorpus) : JsCorpus[i].id # id) =>
                 got = [status |-> 404, error |-> "City not found"]

----------------------------------------------------------------------------
(* Loading: what the claims speak of *)

\* C18: loading is idempotent: once the store is populated, no later
\* process start (and so no later load) inserts, changes or removes
\* anything, so the corpus stays what the first successful load made it.
C18_LoadIdempotent == [][dbCities # <<>> => dbCities' = dbCities]_vars

\* the process runs on a populated store that is not what the dataset of
\* its build would load: it was started again after the first load
C18_Witness ==
    /\ started
    /\ dbCities # <<>>
    /\ dataset.ok /\ dataset.mistyped = {} /\ dataset.records # <<>>
    /\ dbCities # loadCitiesFromJSON(<<>>, dataset)

\* the rows a load of the dataset into an empty store is to leave: one for
\* every object that can be stored, which is every well-typed object whose
\* id no earlier well-typed object has
Storable(jsonData) ==
    LET typed == {i \in 1..Len(jsonData.records) : i \notin jsonData.mistyped}
    IN {i \in typed :
           \A j \in typed : j < i => jsonData.records[j].id # jsonData.records[i].id}
RowsToStore(jsonData) == {Row(jsonData.records[i]) : i \in Storable(jsonData)}

\* C19: in a load, an object that cannot be stored as a city (wrong type,
\* refused insert) is skipped and every other object of the dataset is
\* stored.
C19_BadRecordSkipped ==
    [][(~started /\ started' /\ dbCities = <<>> /\ dataset.ok) =>
          {dbCities'[k] : k \in 1..Len(dbCities')} = RowsToStore(dataset)]_vars

\* no two cities of s have the same id
UniqueIds(s) == \A i, j \in 1..Len(s) : s[i].id = s[j].id => i = j

\* C20: in every reachable state no two stored cities have the same id,
\* in the SQLite table and in the corpus of the Express router, even when
\* the dataset holds objects with the same id.
C20_UniqueIds == UniqueIds(dbCities) /\ UniqueIds(citiesData.cities)

----------------------------------------------------------------------------
(* The corpus under requests: what the claims speak of *)

\* C21: once the corpus is loaded, no request of a client (listing, search,
\* country filter, nearest city, lookup by id, health, admin settings read
\* or update, admin stats) changes the stored cities: while the Go server
\* runs no step changes a row of the table cities, and once cities.js has
\* read the dataset no step changes citiesData.
C21_CorpusNeverMutated ==
    [][/\ started => dbCities' = dbCities
       /\ citiesData.loaded => citiesData' = citiesData]_vars

\* an admin has changed a setting of a server that has cities
C21_Witness ==
    /\ resp["go handleUpdateSettings"].status = 200
    /\ settings["server.title"] = <<Lit(8080)>>
    /\ dbCities # <<>>
    /\ citiesData.loaded

\* the table a load of the dataset gives when it runs from its first step
\* to its last
WholeLoad == loadCitiesFromJSON(<<>>, dataset)

C23_ConcurrentAsAlone ==
    \A w \in DOMAIN inflight :
        /\ inflight[w].phase = "scanning" =>
              inflight[w].cities =
                  SubSeq(inflight[w].rows, 1, inflight[w].pos - 1)
        /\ inflight[w].phase = "responded" =>
              inflight[w].response =
                  HandlerResponse(dbCities, inflight[w].request)

\* a query has answered with two cities while another query, sent to
\* another route, has collected one row of its two
C23_Witness ==
    \E v, w \in DOMAIN inflight :
        /\ inflight[v].phase = "responded"
        /\ inflight[v].response.status = 200
        /\ Len(inflight[v].response.cities) = 2
        /\ inflight[w].phase = "scanning"
        /\ inflight[w].pos = 2
        /\ Len(inflight[w].rows) = 2
        /\ inflight[w].request.op # inflight[v].request.op

----------------------------------------------------------------------------
(* The admin routes, the credentials and the port: what the claims speak of *)

ApiAdminHandlers ==
    {"go handleAdminSettings", "go handleUpdateSettings", "go handleAdminStats"}
WebAdminHandlers == {"go handleAdminDashboard", "go handleAdminSettingsPage"}

\* the request carries a Bearer token whose digest is the stored one
TokenMatches ==
    /\ req.authorization.scheme = "Bearer"
    /\ adminCredentials.exists
    /\ hashString(req.authorization.token) = adminCredentials.token_hash

\* the request carries the stored user name and a password whose digest is
\* the stored one
PasswordMatches ==
    /\ req.authorization.scheme = "Basic"
    /\ adminCredentials.exists
    /\ req.authorization.username = adminCredentials.username
    /\ hashString(req.authorization.password) = adminCredentials.password_hash

\* C24: a handler of an admin route runs only for a request that carries
\* the matching credential: a route under /api/v1/admin answers 401 unless
\* the request has a Bearer token whose SHA-256 digest is the stored token
\* hash, a route under /admin answers 401 unless the request has the stored
\* user name and a password whose digest is the stored password hash; this
\* holds when the table has no credential row too, and the settings of a
\* running server change only in a step that serves a request with the
\* matching token.
C24_AdminNeedsCredential ==
    /\ [](/\ \A r \in ApiAdminHandlers :
                Answered(r) => (resp[r].status = 401 <=> ~TokenMatches)
          /\ \A r \in WebAdminHandlers :
                Answered(r) => (resp[r].status = 401 <=> ~PasswordMatches))
    /\ [][started /\ settings' # settings =>
            /\ req.op = "PUT /api/v1/admin/settings"
            /\ TokenMatches]_vars

\* a token that was not the generated one is refused by a server that has
\* credentials
C24_Witness ==
    /\ resp["go handleUpdateSettings"].status = 401
    /\ adminCredentials.exists
    /\ req.authorization.scheme = "Bearer"
    /\ req.authorization.token \in Tokens
    /\ req.body.ok
    /\ req.body.key = "server.http_port"

\* C25: the admin credentials are generated at the first start and at no
\* other: a running server has a credential row, a row that exists is never
\* changed by a later start, and the row holds the SHA-256 digests of the
\* password and the token that were written to the credentials file, never
\* the password or the token themselves.
C25_CredentialsOnce ==
    /\ [](/\ started => adminCredentials.exists
          /\ adminCredentials.exists =>
                /\ credentialsFile.exists
                /\ adminCredentials.password_hash =
                      <<"sha256">> \o credentialsFile.password
                /\ adminCredentials.token_hash =
                      <<"sha256">> \o credentialsFile.token
                /\ adminCredentials.password_hash \notin Passwords
                /\ adminCredentials.token_hash \notin Tokens)
    /\ [][adminCredentials.exists =>
            /\ adminCredentials' = adminCredentials
            /\ credentialsFile' = credentialsFile]_vars

\* a server that runs on the port a start before the last one took from
\* $PORT: its credentials are those of the first start
C25_Witness ==
    /\ started
    /\ adminCredentials.exists
    /\ launch.cliPort = <<>>
    /\ launch.envPort = <<>>
    /\ launch.httpPort = <<Lit(3000)>>

\* the stored value of server.http_port, "0" when there is none
StoredPort ==
    IF "server.http_port" \in DOMAIN settings
    THEN settings["server.http_port"] ELSE <<Lit(0)>>

\* a text that is the number of a port: a number other than 0, which the
\* settings table uses for `no port yet` (database.go:163)
IsPort(text) == Len(text) = 1 /\ text[1].num /\ text[1].v # 0

\* C26: at every start the port is the --port flag when one is given, else
\* $PORT when it is set, else the port stored in server.http_port when one
\* is stored, else a generated port, which is in 64000-64999; the port of
\* the start is the value of server.http_port after it (so a later start
\* that has neither flag nor $PORT takes that port again and generates
\* none).
C26_PortPriority ==
    [][~started /\ started' =>
        /\ launch'.cliPort # <<>> => launch'.httpPort = launch'.cliPort
        /\ launch'.cliPort = <<>> /\ launch'.envPort # <<>> =>
              launch'.httpPort = launch'.envPort
        /\ launch'.cliPort = <<>> /\ launch'.envPort = <<>> =>
              IF IsPort(StoredPort)
              THEN launch'.httpPort = StoredPort
              ELSE /\ IsPort(launch'.httpPort)
                   /\ launch'.httpPort[1].v >= 64000
                   /\ launch'.httpPort[1].v <= 64999
        /\ settings'["server.http_port"] = launch'.httpPort]_vars

\* a start with neither flag nor $PORT runs on the port that the flag of an
\* earlier start gave
C26_Witness ==
    /\ started
    /\ launch.cliPort = <<>>
    /\ launch.envPort = <<>>
    /\ launch.httpPort = <<Lit(8080)>>

----------------------------------------------------------------------------
(* The limiter and the displayed address: what the claims speak of *)

\* C27: no request to a public route is refused because of the number of
\* requests its IP has sent: no answer of a public route is 429, however
\* many requests came before it in the window.
C27_NoRateLimit ==
    \A r \in {"go handleHealth", "go handleCities"} :
        Answered(r) => resp[r].status # 429

\* loopback and bind-all hosts
LoopbackOrBindAll ==
    {<<"0.0.0.0">>, <<"127.0.0.1">>, <<"localhost">>, <<"::1">>, <<"::">>}

\* C28: for every listen address and every machine, the address that
\* GetDisplayAddress gives is none of 0.0.0.0, 127.0.0.1, localhost, ::1
\* and no unspecified bind-all address (::), and the host of the URL that
\* FormatURL builds is none of them either.
C28_DisplayAddressIsReachable ==
    display.asked =>
        /\ display.address \notin LoopbackOrBindAll
        /\ \A a \in LoopbackOrBindAll :
              /\ ~HasPrefix(display.url, <<"http://">> \o a)
              /\ ~HasPrefix(display.url, <<"http://", "[">> \o a)

----------------------------------------------------------------------------
(* Pages and failed loads: what the claims speak of *)

\* the page that handleCities gives for the limit L at an offset
PageAt(table, L, offset) == CitiesResponse(table, NumStr(L), NumStr(offset)).cities

\* the pages for the limit L at the offsets 0, L, 2L, ... are the pieces
\* 1..L, L+1..2L, ... of the table, the last one ending with the table:
\* pieces that follow one another, share no row and leave no row out, so
\* that put one after the other in the order of their offsets they are the
\* table
PagesTile(table, L) ==
    \A k \in 0..((Len(table) - 1) \div L) :
        PageAt(table, L, k * L) =
            SubSeq(table, k * L + 1, Min(Len(table), k * L + L))

\* a limit that is a whole number >= 1, or none
LimitAtLeastOne(raw) ==
    \/ raw = Undefined
    \/ IsWholeNumber(raw) /\ WholeNumberOf(raw) >= 1

\* C29 as stated: for any limit L >= 1 and an unchanged corpus the pages at
\* the offsets 0, L, 2L, ... partition the corpus in the order of the
\* store, and the page of a request is the piece of L cities from its
\* offset on.
C29_PagesPartitionAnyLimit ==
    (/\ req.op = "handleCities" /\ Answered("go handleCities")
     /\ LimitAtLeastOne(req.limit) /\ ValidOffset(req.offset)) =>
        LET L == LimitAsked(req.limit)
            offset == OffsetAsked(req.offset)
        IN /\ PagesTile(dbCities, L)
           /\ resp["go handleCities"].cities =
                 SubSeq(dbCities, offset + 1, Min(Len(dbCities), offset + L))

\* C29: for a limit L in 1..1000 and an unchanged corpus the pages at the
\* offsets 0, L, 2L, ... partition the corpus in the order of the store:
\* put one after the other they are the stored cities, each once, and the
\* page of a request is the piece of the store from its offset on (on the
\* Express router: the piece of its page number), so the same request gives
\* the same cities in the same order every time.
C29_PagesPartition ==
    /\ (/\ req.op = "handleCities" /\ Answered("go handleCities")
        /\ ValidLimit(req.limit) /\ ValidOffset(req.offset)) =>
          LET L == LimitAsked(req.limit)
              offset == OffsetAsked(req.offset)
          IN /\ PagesTile(dbCities, L)
             /\ resp["go handleCities"].cities =
                   SubSeq(dbCities, offset + 1, Min(Len(dbCities), offset + L))
             /\ resp["go handleCities"] =
                   CitiesResponse(dbCities, req.limit, req.offset)
    /\ (/\ req.op = "js list" /\ Answered("js GET /")
        /\ IsWholeNumber(req.limit) /\ WholeNumberOf(req.limit) \in 1..JsMaxListLimit
        /\ IsWholeNumber(req.page) /\ WholeNumberOf(req.page) >= 1) =>
          LET L == WholeNumberOf(req.limit)
              offset == (WholeNumberOf(req.page) - 1) * L
          IN resp["js GET /"].cities =
                SubSeq(JsCorpus, offset + 1, Min(Len(JsCorpus), offset + L))

\* the second page of 500 cities of a store of 1001 cities
C29_Witness ==
    /\ req.op = "handleCities"
    /\ Answered("go handleCities")
    /\ req.limit = NumStr(MaxListLimit \div 2)
    /\ req.offset = NumStr(MaxListLimit \div 2)
    /\ Len(dbCities) = MaxListLimit + 1
    /\ resp["go handleCities"].cities =
          SubSeq(dbCities, MaxListLimit \div 2 + 1, MaxListLimit)

\* C30: a load that fails stores nothing and does not stop the start: a
\* start on an empty store leaves either no city or the whole load of the
\* dataset, and no city when the dataset does not decode; a stopped process
\* can always start, also when its dataset does not decode; and a stopped
\* process whose store is still empty can start with the load of its
\* dataset stored, so the load is tried again.
C30_FailedLoadStoresNothing ==
    /\ [][(~started /\ started' /\ dbCities = <<>>) =>
            /\ dbCities' \in {<<>>, InsertAll(<<>>, dataset.records, 1)}
            /\ (~dataset.ok \/ dataset.mistyped # {}) => dbCities' = <<>>]_vars
    /\ [](~started => ENABLED (Initialize /\ started'))
    /\ [](~started /\ dbCities = <<>> =>
            ENABLED (Initialize /\ dbCities' = loadCitiesFromJSON(<<>>, dataset)))

\* a server that runs with no city though its dataset has cities that
\* decode: the commit of its load failed
C30_Witness ==
    /\ started
    /\ dbCities = <<>>
    /\ dataset.ok /\ dataset.mistyped = {} /\ dataset.records # <<>>

====
